---- MODULE Spec2Model ----
(***************************************************************************)
(* Turn-based combat engine of tusslehustle: stat derivation, the Actor    *)
(* contract of Character, the Counter reaction, and the build / resolve    *)
(* cycle of the ActionStack driven by Combat::process_turn.                *)
(***************************************************************************)
EXTENDS Integers, Sequences, FiniteSets, TLC

(***************************************************************************)
(* f64 arithmetic.  The source computes costs, damage and derived stats in *)
(* IEEE-754 binary64 and converts back with `as i64` or `.floor()`.  A     *)
(* value is (-1)^neg * m * 2^e with m an unbounded natural kept as a       *)
(* little-endian sequence of 15-bit limbs (TLC integers are 32 bit); every *)
(* operation computes the exact result and rounds it to 53 significant     *)
(* bits, ties to even, as the hardware does.                               *)
(***************************************************************************)
Limb == 2^15

RECURSIVE BStrip(_)
BStrip(s) ==
    IF s = <<>> THEN s
    ELSE IF s[Len(s)] = 0 THEN BStrip(SubSeq(s, 1, Len(s) - 1)) ELSE s

RECURSIVE BFromNat(_)
BFromNat(n) == IF n = 0 THEN <<>> ELSE <<n % Limb>> \o BFromNat(n \div Limb)

RECURSIVE BToNat(_)
BToNat(s) == IF s = <<>> THEN 0 ELSE s[1] + Limb * BToNat(Tail(s))

RECURSIVE BMulC(_, _, _)
BMulC(s, n, c) ==
    IF s = <<>> THEN BFromNat(c)
    ELSE LET t == s[1] * n + c
         IN  <<t % Limb>> \o BMulC(Tail(s), n, t \div Limb)

RECURSIVE BAddC(_, _, _)
BAddC(a, b, c) ==
    IF a = <<>> /\ b = <<>> THEN (IF c = 0 THEN <<>> ELSE <<c>>)
    ELSE LET x == (IF a = <<>> THEN 0 ELSE a[1]) + (IF b = <<>> THEN 0 ELSE b[1]) + c
         IN  <<x % Limb>> \o BAddC(IF a = <<>> THEN a ELSE Tail(a),
                                   IF b = <<>> THEN b ELSE Tail(b), x \div Limb)

RECURSIVE BSubB(_, _, _)
BSubB(a, b, c) ==
    IF a = <<>> THEN <<>>
    ELSE LET x == a[1] - (IF b = <<>> THEN 0 ELSE b[1]) - c
         IN  <<x % Limb>> \o BSubB(Tail(a), IF b = <<>> THEN b ELSE Tail(b),
                                   IF x < 0 THEN 1 ELSE 0)

BAdd(a, b) == BStrip(BAddC(a, b, 0))

BSub(a, b) == BStrip(BSubB(a, b, 0))

RECURSIVE BMulBig(_, _)
BMulBig(a, b) ==
    IF b = <<>> \/ a = <<>> THEN <<>>
    ELSE BAdd(BMulC(a, b[1], 0), BStrip(<<0>> \o BMulBig(a, Tail(b))))

RECURSIVE BLess(_, _)
BLess(a, b) ==
    IF Len(a) # Len(b) THEN Len(a) < Len(b)
    ELSE IF a = <<>> THEN FALSE
    ELSE IF a[Len(a)] # b[Len(b)] THEN a[Len(a)] < b[Len(b)]
    ELSE BLess(SubSeq(a, 1, Len(a) - 1), SubSeq(b, 1, Len(b) - 1))

RECURSIVE NBits(_)
NBits(n) == IF n = 0 THEN 0 ELSE 1 + NBits(n \div 2)

BBitLen(s) == IF s = <<>> THEN 0 ELSE 15 * (Len(s) - 1) + NBits(s[Len(s)])

RECURSIVE BDivR(_, _, _)
BDivR(s, d, r) ==
    IF s = <<>> THEN [r |-> r, q |-> <<>>]
    ELSE LET t    == r * Limb + s[Len(s)]
             rest == BDivR(SubSeq(s, 1, Len(s) - 1), d, t % d)
         IN  [r |-> rest.r, q |-> Append(rest.q, t \div d)]

BDivStrip(x) == [r |-> x.r, q |-> BStrip(x.q)]

BDivSmall(s, d) == BDivStrip(BDivR(s, d, 0))

BShl(s, k) == BStrip(BMulC([i \in 1..(k \div 15) |-> 0] \o s, 2^(k % 15), 0))

BShrPack(x, low) == [q |-> x.q, sticky |-> x.r # 0 \/ \E i \in DOMAIN low : low[i] # 0]

BShrAt(s, d, r) == BShrPack(BDivSmall(SubSeq(s, d + 1, Len(s)), 2^r), SubSeq(s, 1, d))

\* s \div 2^k, and whether a one bit was shifted out
BShr(s, k) == BShrAt(s, IF k \div 15 < Len(s) THEN k \div 15 ELSE Len(s), k % 15)

BOdd(s) == s # <<>> /\ s[1] % 2 = 1

F64RoundUp(neg, q, e, guard, sticky) ==
    [neg |-> neg, e |-> e, m |-> IF guard /\ (sticky \/ BOdd(q)) THEN BAdd(q, <<1>>) ELSE q]

F64RoundHalf(neg, h, e, sticky) ==
    F64RoundUp(neg, BShr(h.q, 1).q, e, BOdd(h.q), sticky \/ h.sticky)

F64RoundTo(neg, big, e, sticky, s) ==
    IF s <= 0 THEN [neg |-> neg, e |-> e, m |-> big]
    ELSE F64RoundHalf(neg, BShr(big, s - 1), e + s, sticky)

\* big * 2^e (plus a lost fraction when sticky) to 53 significant bits, ties to even
F64Round(neg, big, e, sticky) == F64RoundTo(neg, big, e, sticky, BBitLen(big) - 53)

F64Quot(neg, x, e) == F64Round(neg, x.q, e, x.r # 0)

\* The binary64 nearest to the decimal literal n/d (n >= 0, 0 < d < 2^15).
F64Lit(n, d) == F64Quot(FALSE, BDivSmall(BShl(BFromNat(n), 75), d), -75)

\* Correctly rounded quotient by an integer-valued divisor below 2^15 (a max HP).
F64Div(a, b) ==
    F64Quot(a.neg # b.neg, BDivSmall(BShl(a.m, 75), BToNat(BShl(b.m, b.e))), a.e - 75)

\* `x as f64` for an integer below 2^31: exact.
F64FromInt(x) == [neg |-> x < 0, e |-> 0, m |-> BFromNat(IF x < 0 THEN -x ELSE x)]

F64Neg(a) == [a EXCEPT !.neg = ~a.neg]

F64AddM(an, ma, bn, mb, e) ==
    F64Round(IF an = bn \/ ~BLess(ma, mb) THEN an ELSE bn,
             IF an = bn THEN BAdd(ma, mb)
             ELSE IF BLess(ma, mb) THEN BSub(mb, ma) ELSE BSub(ma, mb),
             e, FALSE)

F64AddAt(a, b, e) == F64AddM(a.neg, BShl(a.m, a.e - e), b.neg, BShl(b.m, b.e - e), e)

F64Add(a, b) == F64AddAt(a, b, IF a.e < b.e THEN a.e ELSE b.e)

F64Sub(a, b) == F64Add(a, F64Neg(b))

F64Mul(a, b) == F64Round(a.neg # b.neg, BMulBig(a.m, b.m), a.e + b.e, FALSE)

F64IsZero(a) == a.m = <<>>

F64IsNegative(a) == a.m # <<>> /\ a.neg

F64Eq(a, b) == F64IsZero(F64Sub(a, b))

F64Less(a, b) == F64IsNegative(F64Sub(a, b))

F64Signed(neg, mag) == IF neg THEN -mag ELSE mag

\* `x as i64`: truncation toward zero.
F64Trunc(a) ==
    F64Signed(a.neg, BToNat(IF a.e >= 0 THEN BShl(a.m, a.e) ELSE BShr(a.m, -a.e).q))

F64FloorQ(neg, x) ==
    IF neg THEN -(BToNat(x.q) + (IF x.sticky THEN 1 ELSE 0)) ELSE BToNat(x.q)

\* `x.floor() as i64`.
F64Floor(a) ==
    IF a.e >= 0 THEN F64Signed(a.neg, BToNat(BShl(a.m, a.e)))
    ELSE F64FloorQ(a.neg, BShr(a.m, -a.e))

(***************************************************************************)
(* characters.rs: Stats and the derived GameStats.                         *)
(***************************************************************************)
MkStats(dex, str, grt, wil, cha, int) ==
    [dex |-> dex, str |-> str, grt |-> grt, wil |-> wil, cha |-> cha, int |-> int]

\* `(stat_factor as f64 * lit) as i64` and `(stat_factor as f64 * lit).floor() as i64`
ScaleTrunc(stat_factor, n, d) == F64Trunc(F64Mul(F64FromInt(stat_factor), F64Lit(n, d)))

ScaleFloor(stat_factor, n, d) == F64Floor(F64Mul(F64FromInt(stat_factor), F64Lit(n, d)))

max_hp(s) == 100 + ((s.grt + s.wil) * 2 + s.str + s.cha) * 12

max_mp(s) == ((s.int + s.cha) * 2 + s.wil + s.dex) * 2

max_ap(s) == ScaleTrunc((s.dex + s.int + s.wil) * 2 + s.grt, 2, 10)

action_points(s) == 1 + ScaleFloor((s.dex + s.int) * 2 + s.grt + s.wil, 5, 100)

move_speed(s) == 0 * 5

phys_defense(s) == ScaleFloor(s.grt + s.str, 12, 10)

mag_defense(s) == ScaleFloor(s.wil + s.cha, 12, 10)

mobility(s) == ScaleFloor(s.dex + s.int, 12, 10)

health_regen(s) == 1 + ScaleFloor(s.grt * 2 + s.wil + s.str, 60, 100)

magic_regen(s) == 1 + ScaleFloor(s.wil * 2 + s.cha + s.int, 33, 100)

max_vit(s) == (s.grt * 4 + s.wil * 3 + s.str + s.cha) * 15

to_game_stats(s) ==
    [mhp |-> max_hp(s), mmp |-> max_mp(s), tap |-> action_points(s),
     mve |-> move_speed(s), pdf |-> phys_defense(s), mdf |-> mag_defense(s),
     mob |-> mobility(s), hrg |-> health_regen(s), mrg |-> magic_regen(s),
     map |-> max_ap(s)]

\* As written: the six comparisons are joined by `||`.
meets_requirements(s, req) ==
    \/ s.dex >= req.dex \/ s.str >= req.str \/ s.grt >= req.grt
    \/ s.wil >= req.wil \/ s.cha >= req.cha \/ s.int >= req.int

(***************************************************************************)
(* effects.rs: the Effect trait and its StatChange implementation.         *)
(***************************************************************************)
StatChange(stat, v) == [stat |-> stat, v |-> v, kind |-> "StatChange"]

apply_to_stats(effect, stats) ==
    IF effect.kind = "StatChange" /\ effect.stat \in DOMAIN stats
    THEN [stats EXCEPT ![effect.stat] = @ + effect.v]
    ELSE stats

\* An implementor of the Effect trait that keeps every default but asks to be
\* ended early: its cancel_self returns true.
Fleeting == [kind |-> "Fleeting"]

\* Effect::cancel_self: false by default (StatChange does not override it).
cancel_self(effect) == effect.kind = "Fleeting"

(***************************************************************************)
(* equipment.rs                                                            *)
(***************************************************************************)
equipment_max(eq_type) ==
    CASE eq_type = "Head" -> 1
      [] eq_type = "Chest" -> 1
      [] eq_type = "Arms" -> 2
      [] eq_type = "Hands" -> 2
      [] eq_type = "Feet" -> 2
      [] eq_type = "Ring" -> 4
      [] eq_type = "Weapon" -> 2
      [] eq_type = "Accessory" -> 2

\* Equipment::new followed by add_passive_effect / add_reaction calls.
NewEquipment(name, eq_type, stat_requirements, passive_effects, reactions) ==
    [eq_type |-> eq_type, name |-> name, stat_requirements |-> stat_requirements,
     passive_effects |-> passive_effects, reactions |-> reactions]

can_equip(eq_type, character) ==
    Cardinality({i \in DOMAIN character.equipment :
                    character.equipment[i].eq_type = eq_type}) < equipment_max(eq_type)

(***************************************************************************)
(* characters.rs: Character.                                               *)
(***************************************************************************)
NewCharacter(name, base_stats) ==
    [name |-> name, equipment |-> <<>>, base_stats |-> base_stats,
     party |-> "<no party>", timed_effects |-> <<>>,
     hp |-> max_hp(base_stats), mp |-> max_mp(base_stats),
     ap |-> max_ap(base_stats), vit |-> max_vit(base_stats)]

set_party(character, party) == [character EXCEPT !.party = party]

RECURSIVE Flatten(_)
Flatten(ss) == IF ss = <<>> THEN <<>> ELSE Head(ss) \o Flatten(Tail(ss))

\* Timed effects first, then the passive effects of each item, in equipment order.
all_current_effects(c) ==
    [i \in DOMAIN c.timed_effects |-> c.timed_effects[i][1]]
        \o Flatten([i \in DOMAIN c.equipment |-> c.equipment[i].passive_effects])

RECURSIVE ApplyEffects(_, _)
ApplyEffects(effects, stats) ==
    IF effects = <<>> THEN stats
    ELSE ApplyEffects(Tail(effects), apply_to_stats(Head(effects), stats))

calculate_current_stats(c) == ApplyEffects(all_current_effects(c), c.base_stats)

calculate_game_stats(c) == to_game_stats(calculate_current_stats(c))

all_current_reactions(c) ==
    Flatten([i \in DOMAIN c.equipment |-> c.equipment[i].reactions])

Min(a, b) == IF a < b THEN a ELSE b

Max(a, b) == IF a > b THEN a ELSE b

\* equip with the capacity test off by one (`>` for `>=`).
equip_off_by_one(c, equipment) ==
    IF Len(c.equipment) > 3
    THEN [c |-> c, res |-> "Cannot equip more than 3 items."]
    ELSE IF ~meets_requirements(calculate_current_stats(c), equipment.stat_requirements)
    THEN [c |-> c, res |-> "Not meeting the stat requirement."]
    ELSE IF ~can_equip(equipment.eq_type, c)
    THEN [c |-> c, res |-> "Cannot equip more"]
    ELSE [c |-> [c EXCEPT !.equipment = Append(@, equipment)], res |-> "Ok"]

\* Character::equip: the result and the character afterwards.
equip(c, equipment) ==
    IF Len(c.equipment) >= 3
    THEN [c |-> c, res |-> "Cannot equip more than 3 items."]
    ELSE IF ~meets_requirements(calculate_current_stats(c), equipment.stat_requirements)
    THEN [c |-> c, res |-> "Not meeting the stat requirement."]
    ELSE IF ~can_equip(equipment.eq_type, c)
    THEN [c |-> c, res |-> "Cannot equip more"]
    ELSE [c |-> [c EXCEPT !.equipment = Append(@, equipment)], res |-> "Ok"]

\* Regeneration that forgets the `.min(max)` clamp.
RegenUnclamped(c, stats) ==
    [c EXCEPT !.hp = @ + stats.hrg, !.mp = @ + stats.mrg, !.ap = @ + stats.tap]

Regen(c, stats) ==
    [c EXCEPT !.hp = Min(@ + stats.hrg, stats.mhp),
              !.mp = Min(@ + stats.mrg, stats.mmp),
              !.ap = Min(@ + stats.tap, stats.map)]

pre_turn(c) == Regen(c, calculate_game_stats(c))

RECURSIVE Retain(_)
Retain(tes) ==
    IF tes = <<>> THEN <<>>
    ELSE (IF Head(tes)[2] > 0 THEN <<Head(tes)>> ELSE <<>>) \o Retain(Tail(tes))

post_turn(c) ==
    [c EXCEPT !.timed_effects =
        Retain([i \in DOMAIN @ |-> <<@[i][1], @[i][2] - 1>>])]

\* i64 `/`: quotient truncated toward zero.
TruncDiv(a, b) == IF a >= 0 THEN a \div b ELSE -((-a) \div b)

Damage(dt, amount) == [dt |-> dt, amount |-> amount]

DamageType(cat, sub) == [cat |-> cat, sub |-> sub]

\* Damage that no defense reduces.
defense_adjust_none(gamestats, dt) == 0

defense_adjust(gamestats, dt) ==
    CASE dt.cat = "PHY" -> gamestats.pdf
      [] dt.cat = "MAG" -> gamestats.mdf
      [] dt.cat = "ZAP" -> TruncDiv(gamestats.mdf, 2)
      [] dt.cat = "ULT" -> 0

\* Damage that always drains MP, whatever its type.
TakeDamageFromMp(c, dt, effective_damage) == [c EXCEPT !.mp = @ - effective_damage]

TakeDamage(c, dt, effective_damage) ==
    IF dt.cat = "ZAP"
    THEN [c EXCEPT !.mp = @ - effective_damage]
    ELSE [c EXCEPT !.hp = @ - effective_damage]

\* Damage below the defense turned into a gain.
apply_damage_unfloored(c, damage) ==
    TakeDamage(c, damage.dt,
               damage.amount - defense_adjust(calculate_game_stats(c), damage.dt))

apply_damage(c, damage) ==
    TakeDamage(c, damage.dt,
               Max(damage.amount - defense_adjust(calculate_game_stats(c), damage.dt), 0))

CharUnit(unit, v) == [v |-> v, unit |-> unit]

apply_directly(c, val) ==
    CASE val.unit = "HP"  -> [c EXCEPT !.hp = @ + val.v]
      [] val.unit = "MP"  -> [c EXCEPT !.mp = val.v]
      [] val.unit = "AP"  -> [c EXCEPT !.ap = val.v]
      [] val.unit = "VIT" -> [c EXCEPT !.vit = @ + val.v]

apply_timed_effect(c, effect, effect_duration) ==
    [c EXCEPT !.timed_effects = Append(@, <<effect, effect_duration>>)]

\* `self.hp as f64 / max_hp as f64`, then `(ratio * 1000f64) as i64` (mov.rs:97).
hp_ratio_key(c) ==
    F64Trunc(F64Mul(F64Div(F64FromInt(c.hp),
                           F64FromInt(max_hp(calculate_current_stats(c)))),
                    F64FromInt(1000)))

as_target(c) == [i |-> 0, kind |-> "Character", chars |-> <<c.name>>]

(***************************************************************************)
(* combat.rs: EntityPointer, ActionEffect, Action.                         *)
(***************************************************************************)
PtrCharacter(names) == [i |-> 0, kind |-> "Character", chars |-> names]

PtrAction(i) == [i |-> i, kind |-> "Action", chars |-> <<>>]

PtrEnvironment == [i |-> 0, kind |-> "Environment", chars |-> <<>>]

\* EntityPointer::Effect(source, name): nothing reads its two fields.
PtrEffect == [i |-> 0, kind |-> "Effect", chars |-> <<>>]

PtrNone == [i |-> 0, kind |-> "None", chars |-> <<>>]

Attack(damage) == [tag |-> "Attack", dmg |-> damage]

Heal(unit) == [unit |-> unit, tag |-> "Heal"]

GiveTimedEffect(effect, t) == [t |-> t, tag |-> "GiveTimedEffect", eff |-> effect]

Cancel == [tag |-> "Cancel"]

Canceled == [tag |-> "Canceled"]

AdjustDamageAbs(d) == [d |-> d, tag |-> "AdjustDamageAbs"]

AdjustDamageMul(f) == [tag |-> "AdjustDamageMul", f |-> f]

ChangeTarget(t) == [tag |-> "ChangeTarget", ptr |-> t]

from_source(source, effect, target) ==
    [effect |-> effect, source |-> source, target |-> target, stack_target |-> PtrNone]

targets_character(action, name) ==
    /\ action.target.kind = "Character"
    /\ \E k \in DOMAIN action.target.chars : action.target.chars[k] = name

\* A stack location that is never stored.
set_stack_location_nowhere(action, target) == action

set_stack_location(action, target) == [action EXCEPT !.stack_target = target]

\* Panics on an action that was never given a stack location; add_action sets
\* the location before it solicits, so every action a reaction sees has one.
\* A self target that points one position too high.
build_self_target_above(action) == PtrAction(action.stack_target.i + 1)

build_self_target(action) == action.stack_target

apply_to_character(effect, c) ==
    CASE effect.tag = "Attack" -> apply_damage(c, effect.dmg)
      [] effect.tag = "Heal"   -> apply_directly(c, effect.unit)
      [] OTHER                 -> c

\* An action that ignores the factor a reaction puts on its damage.
apply_to_action_without_factor(effect, action) ==
    CASE effect.tag = "Cancel" -> [action EXCEPT !.effect = Canceled]
      [] effect.tag = "AdjustDamageAbs" ->
            IF action.effect.tag = "Attack"
            THEN [action EXCEPT !.effect =
                    Attack(Damage(@.dmg.dt, @.dmg.amount + effect.d))]
            ELSE action
      [] effect.tag = "ChangeTarget" -> [action EXCEPT !.target = effect.ptr]
      [] OTHER -> action

\* A Cancel that marks nothing.
apply_to_action_without_cancel(effect, action) ==
    CASE effect.tag = "AdjustDamageAbs" ->
            IF action.effect.tag = "Attack"
            THEN [action EXCEPT !.effect =
                    Attack(Damage(@.dmg.dt, @.dmg.amount + effect.d))]
            ELSE action
      [] effect.tag = "AdjustDamageMul" ->
            IF action.effect.tag = "Attack"
            THEN [action EXCEPT !.effect =
                    Attack(Damage(@.dmg.dt,
                        F64Floor(F64Mul(F64FromInt(@.dmg.amount), effect.f))))]
            ELSE action
      [] effect.tag = "ChangeTarget" -> [action EXCEPT !.target = effect.ptr]
      [] OTHER -> action

\* A ChangeTarget that rewrites nothing.
apply_to_action_without_retarget(effect, action) ==
    CASE effect.tag = "Cancel" -> [action EXCEPT !.effect = Canceled]
      [] effect.tag = "AdjustDamageAbs" ->
            IF action.effect.tag = "Attack"
            THEN [action EXCEPT !.effect =
                    Attack(Damage(@.dmg.dt, @.dmg.amount + effect.d))]
            ELSE action
      [] effect.tag = "AdjustDamageMul" ->
            IF action.effect.tag = "Attack"
            THEN [action EXCEPT !.effect =
                    Attack(Damage(@.dmg.dt,
                        F64Floor(F64Mul(F64FromInt(@.dmg.amount), effect.f))))]
            ELSE action
      [] OTHER -> action

apply_to_action(effect, action) ==
    CASE effect.tag = "Cancel" -> [action EXCEPT !.effect = Canceled]
      [] effect.tag = "AdjustDamageAbs" ->
            IF action.effect.tag = "Attack"
            THEN [action EXCEPT !.effect =
                    Attack(Damage(@.dmg.dt, @.dmg.amount + effect.d))]
            ELSE action
      [] effect.tag = "AdjustDamageMul" ->
            IF action.effect.tag = "Attack"
            THEN [action EXCEPT !.effect =
                    Attack(Damage(@.dmg.dt,
                        F64Floor(F64Mul(F64FromInt(@.dmg.amount), effect.f))))]
            ELSE action
      [] effect.tag = "ChangeTarget" -> [action EXCEPT !.target = effect.ptr]
      [] OTHER -> action

\* Action::resolve_on_chars over the roster (find_characters_mut keeps roster order).
resolve_on_chars(action, ps) ==
    IF action.target.kind = "Character"
    THEN [k \in DOMAIN ps |->
            IF \E j \in DOMAIN action.target.chars : action.target.chars[j] = ps[k].name
            THEN apply_to_character(action.effect, ps[k]) ELSE ps[k]]
    ELSE ps

(***************************************************************************)
(* mov.rs: BarehandedBlow and Counter.                                     *)
(***************************************************************************)
Counter(damage_type, incoming_factor, outgoing_factor) ==
    [damage_type |-> damage_type, incoming_factor |-> incoming_factor,
     outgoing_factor |-> outgoing_factor]

\* A filter that looks at the damage category only.
relevant_for_any_subtype(counter, incoming) ==
    IF incoming.cat = "ULT" THEN FALSE
    ELSE IF counter.damage_type.cat = "ULT" THEN TRUE
    ELSE incoming.cat = counter.damage_type.cat

\* A ULT filter that matches nothing.
relevant_for_ult_never(counter, incoming) ==
    IF incoming.cat = "ULT" THEN FALSE
    ELSE IF counter.damage_type.cat = "ULT" THEN FALSE
    ELSE IF counter.damage_type.sub = "" THEN incoming.cat = counter.damage_type.cat
    ELSE incoming.cat = counter.damage_type.cat /\ incoming.sub = counter.damage_type.sub

relevant_for(counter, incoming) ==
    IF incoming.cat = "ULT" THEN FALSE
    ELSE IF counter.damage_type.cat = "ULT" THEN TRUE
    ELSE IF counter.damage_type.sub = "" THEN incoming.cat = counter.damage_type.cat
    ELSE incoming.cat = counter.damage_type.cat /\ incoming.sub = counter.damage_type.sub

mp_cost(counter) ==
    LET red_cutoff == F64Lit(7, 10)
        dmg_cutoff == F64Lit(3, 10)
        red_cost == IF F64Less(counter.incoming_factor, red_cutoff)
                    THEN F64Trunc(F64Mul(F64Sub(red_cutoff, counter.incoming_factor),
                                         F64FromInt(10)))
                    ELSE 0
        dmg_cost == IF F64Less(dmg_cutoff, counter.outgoing_factor)
                    THEN F64Trunc(F64Mul(F64Sub(counter.outgoing_factor, dmg_cutoff),
                                         F64FromInt(15)))
                    ELSE 0
    IN  red_cost + dmg_cost

\* Reactions that cost no AP.
ap_cost_free(counter) == 0

ap_cost(counter) == 3

None == [some |-> FALSE, actions |-> <<>>]

Some(actions) == [some |-> TRUE, actions |-> actions]

react(counter, character, action) ==
    IF ~targets_character(action, character.name) THEN None
    ELSE IF action.effect.tag = "Attack"
    THEN IF relevant_for(counter, action.effect.dmg.dt)
         THEN Some(
            (IF ~F64Eq(counter.incoming_factor, F64FromInt(1))
             THEN <<from_source(as_target(character),
                                AdjustDamageMul(counter.incoming_factor),
                                build_self_target(action))>>
             ELSE <<>>)
            \o
            (IF ~F64IsZero(counter.outgoing_factor)
             THEN <<from_source(as_target(character),
                        Attack(Damage(action.effect.dmg.dt,
                            F64Trunc(F64Mul(counter.outgoing_factor,
                                            F64FromInt(action.effect.dmg.amount))))),
                        action.source)>>
             ELSE <<>>))
         ELSE None
    ELSE None

RECURSIVE max_by_key(_)
max_by_key(list) ==
    IF Len(list) = 1 THEN list[1]
    ELSE LET m == max_by_key(SubSeq(list, 1, Len(list) - 1))
         IN  IF hp_ratio_key(list[Len(list)]) >= hp_ratio_key(m)
             THEN list[Len(list)] ELSE m

find_characters(ps, Filter(_)) == SelectSeq(ps, Filter)

\* A blow that looks for a target among the enemies still standing.
execute_sparing_the_fallen(character, ps) ==
    LET stats   == calculate_current_stats(character)
        raw     == (stats.dex + stats.str) * 3 + stats.grt + stats.int
        amount  == Max(ScaleTrunc(raw, 45, 100), 1)
        blow    == Attack(Damage(DamageType("PHY", "Strike"), amount))
        Standing(c) == c.party # character.party /\ c.hp > 0
        targets == find_characters(ps, Standing)
    IN  IF targets = <<>> THEN [actions |-> <<>>, ok |-> FALSE]
        ELSE [actions |-> <<from_source(as_target(character), blow,
                                        as_target(max_by_key(targets)))>>,
              ok |-> TRUE]

\* BarehandedBlow::execute; ok = FALSE is the `expect("Couldn't find a target")` panic.
execute(character, ps) ==
    LET stats   == calculate_current_stats(character)
        raw     == (stats.dex + stats.str) * 3 + stats.grt + stats.int
        amount  == Max(ScaleTrunc(raw, 45, 100), 1)
        blow    == Attack(Damage(DamageType("PHY", "Strike"), amount))
        NotMine(c) == c.party # character.party
        targets == find_characters(ps, NotMine)
    IN  IF targets = <<>> THEN [actions |-> <<>>, ok |-> FALSE]
        ELSE [actions |-> <<from_source(as_target(character), blow,
                                        as_target(max_by_key(targets)))>>,
              ok |-> TRUE]

(***************************************************************************)
(* characters.rs: Character::respond_to_action.                            *)
(***************************************************************************)
\* A payment that never takes AP below zero.
PayWhatIsLeft(c, reaction, cost) ==
    [c EXCEPT !.ap = Max(@ - ap_cost(reaction), 0),
              !.mp = IF cost > 0 THEN @ - cost ELSE @]

\* characters.rs:726-731: the accepted reaction is paid for.
Pay(c, reaction, cost) ==
    [c EXCEPT !.ap = @ - ap_cost(reaction),
              !.mp = IF cost > 0 THEN @ - cost ELSE @]

RECURSIVE RespondLoop(_, _, _, _)
RespondAccept(rs, c, action, reactions, cost, r) ==
    IF r.some
    THEN RespondLoop(Tail(rs), Pay(c, Head(rs), cost), action, reactions \o r.actions)
    ELSE RespondLoop(Tail(rs), c, action, reactions)

RespondOne(rs, c, action, reactions, cost) ==
    IF cost > 0 /\ c.mp < cost
    THEN RespondLoop(Tail(rs), c, action, reactions)
    ELSE RespondAccept(rs, c, action, reactions, cost, react(Head(rs), c, action))

\* A loop that evaluates every reaction whatever MP is left.
RespondLoopOnCredit(rs, c, action, reactions) ==
    IF rs = <<>> THEN [c |-> c, reactions |-> reactions]
    ELSE RespondAccept(rs, c, action, reactions, mp_cost(Head(rs)),
                       react(Head(rs), c, action))

\* The loop over all_current_reactions (characters.rs:715-736).
RespondLoop(rs, c, action, reactions) ==
    IF rs = <<>> THEN [c |-> c, reactions |-> reactions]
    ELSE RespondOne(rs, c, action, reactions, mp_cost(Head(rs)))

\* A character that reacts whatever its AP.
respond_to_action_in_debt(c, action, reactions) ==
    RespondLoop(all_current_reactions(c), c, action, reactions)

\* A character that stops answering once a reaction has put its AP below zero.
RECURSIVE RespondWhileSolvent(_, _, _, _)
RespondWhileSolvent(rs, c, action, reactions) ==
    IF rs = <<>> \/ c.ap < 0 THEN [c |-> c, reactions |-> reactions]
    ELSE LET one == RespondLoop(<<Head(rs)>>, c, action, reactions)
         IN  RespondWhileSolvent(Tail(rs), one.c, action, one.reactions)

respond_to_action_while_solvent(c, action, reactions) ==
    RespondWhileSolvent(all_current_reactions(c), c, action, reactions)

respond_to_action(c, action, reactions) ==
    IF c.ap < 0 THEN [c |-> c, reactions |-> reactions]
    ELSE RespondLoop(all_current_reactions(c), c, action, reactions)

(***************************************************************************)
(* combat.rs / world.rs: Combat.                                           *)
(***************************************************************************)
\* WorldContext::get_character(_mut): the first roster member of that name.
CharIndex(ps, name) ==
    CHOOSE k \in DOMAIN ps :
        ps[k].name = name /\ \A j \in 1..(k - 1) : ps[j].name # name

\* Vec::sort_by_key is stable: equal keys keep their roster order.
RECURSIVE InsertByKey(_, _)
InsertByKey(sorted, el) ==
    IF sorted = <<>> THEN <<el>>
    ELSE IF el[2] < Head(sorted)[2] THEN <<el>> \o sorted
    ELSE <<Head(sorted)>> \o InsertByKey(Tail(sorted), el)

RECURSIVE sort_by_key(_)
sort_by_key(list) ==
    IF list = <<>> THEN <<>>
    ELSE InsertByKey(sort_by_key(SubSeq(list, 1, Len(list) - 1)), list[Len(list)])

\* A turn order that forgets to sort: the roster order.
unsorted_turn_order(ps) == [k \in DOMAIN ps |-> ps[k].name]

build_turn_order(ps) ==
    LET char_list == [k \in DOMAIN ps |->
                        <<ps[k].name, mobility(calculate_current_stats(ps[k]))>>]
        sorted    == sort_by_key(char_list)
    IN  [k \in DOMAIN sorted |-> sorted[k][1]]

Reverse(seq) == [k \in DOMAIN seq |-> seq[Len(seq) + 1 - k]]

\* request_reactions without its `turn_order.reverse()`.
request_order_forward(ps) == build_turn_order(ps)

\* The order in which request_reactions walks the roster (combat.rs:109-111).
request_order(ps) == Reverse(build_turn_order(ps))

RECURSIVE RequestLoop(_, _, _, _, _)
RequestOne(order, ps, action, asked, k, r) ==
    RequestLoop(Tail(order), [ps EXCEPT ![k] = r.c], action, r.reactions,
                Append(asked, ps[k].name))

RequestAsk(order, ps, action, reactions, asked, k) ==
    RequestOne(order, ps, action, asked, k, respond_to_action(ps[k], action, reactions))

\* The loop of request_reactions (combat.rs:117-120).
RequestLoop(order, ps, action, reactions, asked) ==
    IF order = <<>> THEN [reactions |-> reactions, asked |-> asked, participants |-> ps]
    ELSE RequestAsk(order, ps, action, reactions, asked, CharIndex(ps, Head(order)))

request_reactions(ps, action) == RequestLoop(request_order(ps), ps, action, <<>>, <<>>)

(***************************************************************************)
(* State.  participants is Combat::participants; pc, turn_order, idx and   *)
(* logger are the position, locals and argument of the running             *)
(* process_turn call; maneuver_stack is its ActionStack, frames the        *)
(* pending `for` loops of build / add_action (innermost first);            *)
(* targeting_actions and current_stack_index are the locals of resolve.    *)
(* obs records what has been observed of the run; call is the last call    *)
(* made on the Actor / Counter interface outside a combat.                 *)
(***************************************************************************)
VARIABLES participants, pc, turn_order, idx, logger, maneuver_stack, frames,
          targeting_actions, current_stack_index, obs, call

vars == <<participants, pc, turn_order, idx, logger, maneuver_stack, frames,
          targeting_actions, current_stack_index, obs, call>>

MaxRounds == 2

\* More actions than any stack of these rosters holds; a build that reached
\* it would stop there.
MaxStack == 40

PHY(sub) == DamageType("PHY", sub)

NoReq == MkStats(0, 0, 0, 0, 0, 0)

\* The ring of combat.rs:857-866 (test_reaction): Counter::new(PHY(""), 0f64, 1f64).
CounterRing ==
    NewEquipment("Counter Ring", "Ring", MkStats(5, 0, 0, 0, 0, 0), <<>>,
                 <<Counter(PHY(""), F64FromInt(0), F64FromInt(1))>>)

\* A ring with two free counters that only strike back (no MP cost: nothing is
\* reduced, and 30% return damage is free, mov.rs:199-211).
TwinRing ==
    NewEquipment("Twin Ring", "Ring", NoReq, <<>>,
                 <<Counter(PHY(""), F64FromInt(1), F64Lit(3, 10)),
                   Counter(PHY(""), F64FromInt(1), F64Lit(3, 10))>>)

\* combat.rs:788-797 test_character.
TestStats == MkStats(8, 3, 6, 2, 6, 5)

Nines == MkStats(9, 9, 9, 9, 9, 9)

Member(name, party, stats) == set_party(NewCharacter(name, stats), party)

Equipped(c, item) == equip(c, item).c

Rosters ==
    { \* two unequipped actors, all stats 9
      << Member("Ann", "Best Friends", Nines), Member("Bob", "Baddies!", Nines) >>,
      \* combat.rs test_turn: two unequipped test characters
      << Member("Lindtbert", "Best Friends", TestStats),
         Member("Baddie", "Baddies!", TestStats) >>,
      \* combat.rs test_reaction: the defender holds the Counter ring
      << Equipped(Member("Lindtbert", "Best Friends", TestStats), CounterRing),
         Member("Baddie", "Baddies!", TestStats) >>,
      \* both test characters hold the Counter ring
      << Equipped(Member("Lindtbert", "Best Friends", TestStats), CounterRing),
         Equipped(Member("Baddie", "Baddies!", TestStats), CounterRing) >>,
      \* three mobilities (15, 4, 10); the slowest and the fastest counter each other
      << Equipped(Member("Zed", "Baddies!", TestStats), CounterRing),
         Equipped(Member("Xan", "Best Friends", MkStats(5, 9, 9, 2, 2, -1)), CounterRing),
         Member("Yul", "Baddies!", MkStats(5, 3, 3, 3, 3, 4)) >>,
      \* a timed +DEX that runs out in the first post_turn
      << apply_timed_effect(Member("Ann", "Best Friends", MkStats(3, 9, 9, 3, 3, 3)),
                            StatChange("dex", 10), 1),
         Member("Bob", "Baddies!", TestStats) >>,
      \* both hold two counters: every blow is answered twice
      << Equipped(Member("Kim", "Best Friends", TestStats), TwinRing),
         Equipped(Member("Lou", "Baddies!", Nines), TwinRing) >>,
      \* Character::new leaves everybody in "<no party>"
      << NewCharacter("Ann", Nines), NewCharacter("Bob", TestStats) >> }

Names(ps) == [k \in DOMAIN ps |-> ps[k].name]

NoCall == [n |-> 0, op |-> "none"]

Obs0 ==
    [round |-> 0, result |-> "none", start |-> <<>>, mob0 |-> <<>>, prev_order |-> <<>>,
     pre |-> <<>>, man |-> <<>>, post |-> <<>>, solicits |-> <<>>,
     parent |-> <<>>, resolved |-> <<>>, built |-> 0, logged |-> <<>>,
     mstart |-> <<>>, first |-> <<>>, logged_when |-> <<>>]

Init ==
    /\ participants \in Rosters
    /\ pc = "idle"
    /\ turn_order = <<>>
    /\ idx = 0
    /\ logger = FALSE
    /\ maneuver_stack = <<>>
    /\ frames = <<>>
    /\ targeting_actions = <<>>
    /\ current_stack_index = 0
    /\ obs = Obs0
    /\ call = NoCall

(***************************************************************************)
(* Combat::process_turn, one step per loop iteration.                      *)
(***************************************************************************)
\* Position after one iteration of a `for char in turn_order` loop.
LoopNext(here, after) ==
    IF idx = Len(turn_order) THEN [pc |-> after, idx |-> 1]
    ELSE [pc |-> here, idx |-> idx + 1]

\* combat.rs:43-47: entry; the round's turn order is built once.
StartTurn(lg) ==
    /\ pc = "idle"
    /\ obs.round < MaxRounds
    /\ turn_order' = build_turn_order(participants)
    /\ logger' = lg
    /\ idx' = 1
    /\ pc' = "pre_turn"
    /\ obs' = [obs EXCEPT !.round = @ + 1, !.result = "running",
                          !.start = participants,
                          !.mob0 = [k \in DOMAIN participants |->
                                      mobility(calculate_current_stats(participants[k]))],
                          !.prev_order = turn_order,
                          !.pre = <<>>, !.man = <<>>, !.post = <<>>,
                          !.solicits = <<>>, !.parent = <<>>, !.resolved = <<>>,
                          !.built = 0, !.logged = <<>>, !.logged_when = <<>>]
    /\ UNCHANGED <<participants, maneuver_stack, frames, targeting_actions,
                   current_stack_index, call>>

\* combat.rs:50-53
PreTurnStep ==
    /\ pc = "pre_turn"
    /\ LET k == CharIndex(participants, turn_order[idx])
           n == LoopNext("pre_turn", "maneuver")
       IN  /\ participants' = [participants EXCEPT ![k] = pre_turn(@)]
           /\ obs' = [obs EXCEPT !.pre = Append(@, participants[k].name)]
           /\ pc' = n.pc
           /\ idx' = n.idx
    /\ UNCHANGED <<turn_order, logger, maneuver_stack, frames, targeting_actions,
                   current_stack_index, call>>

Entries(actions, parent) == [k \in DOMAIN actions |-> [action |-> actions[k], parent |-> parent]]

RECURSIVE DropDone(_)
DropDone(fs) ==
    IF fs = <<>> THEN fs
    ELSE IF Head(fs) = <<>> THEN DropDone(Tail(fs)) ELSE fs

\* combat.rs:56-65: a fresh stack, the actor's move, and the call of build.
Execute ==
    /\ pc = "maneuver"
    /\ LET k  == CharIndex(participants, turn_order[idx])
           ex == execute(participants[k], participants)
       IN  IF ex.ok
           THEN /\ maneuver_stack' = <<>>
                /\ frames' = DropDone(<<Entries(ex.actions, -1)>>)
                /\ pc' = "build"
                /\ obs' = [obs EXCEPT !.man = Append(@, participants[k].name),
                                      !.mstart = participants, !.first = ex.actions,
                                      !.solicits = <<>>, !.parent = <<>>,
                                      !.resolved = <<>>, !.built = 0]
           ELSE /\ pc' = "panic"
                /\ UNCHANGED <<maneuver_stack, frames, obs>>
    /\ UNCHANGED <<participants, turn_order, idx, logger, targeting_actions,
                   current_stack_index, call>>

\* Breadth-first: the reactions wait until the pending siblings are pushed.
push_frames_breadth_first(fs, reactions, pos) ==
    DropDone(<<Tail(Head(fs))>> \o Tail(fs) \o <<Entries(reactions, pos)>>)

\* combat.rs:310-312 inside 286-288: the reactions are added, each with all it
\* provokes, before the loop that called add_action goes on.
push_frames(fs, reactions, pos) ==
    DropDone(<<Entries(reactions, pos)>> \o <<Tail(Head(fs))>> \o Tail(fs))

Pushed(parent, pos, action, rr) ==
    /\ participants' = rr.participants
    /\ maneuver_stack' = Append(maneuver_stack, action)
    /\ frames' = push_frames(frames, rr.reactions, pos)
    /\ obs' = [obs EXCEPT !.solicits = Append(@, [action |-> action, asked |-> rr.asked,
                                                     pos |-> pos,
                                                     got |-> Len(rr.reactions),
                                                     before |-> participants]),
                          !.parent = Append(@, parent)]
    /\ pc' = IF frames' = <<>> THEN "log" ELSE "build"

Solicit(parent, pos, action) ==
    Pushed(parent, pos, action, request_reactions(participants, action))

CanAddAction == pc = "build" /\ Len(maneuver_stack) < MaxStack

\* combat.rs:297-315: one call of add_action up to its loop.
AddAction ==
    /\ CanAddAction
    /\ Solicit(Head(Head(frames)).parent, Len(maneuver_stack),
               set_stack_location(Head(Head(frames)).action,
                                  PtrAction(Len(maneuver_stack))))
    /\ UNCHANGED <<turn_order, idx, logger, targeting_actions, current_stack_index, call>>

\* A sink that is handed every stack twice.
log_maneuver_stack_twice(lg, logged, stack) ==
    IF lg THEN Append(Append(logged, stack), stack) ELSE logged

\* combat.rs:72-74: `if let Some(logger) = &logger { logger.maneuver_stack(..) }`;
\* `logged` is what the sink has been handed so far.
log_maneuver_stack(lg, logged, stack) ==
    IF lg THEN Append(logged, stack) ELSE logged

\* combat.rs:72-75 and 327-329: the logger sees the built stack, resolve starts.
LogStack ==
    /\ pc = "log"
    /\ obs' = [obs EXCEPT !.built = Len(maneuver_stack),
                          !.logged = log_maneuver_stack(logger, @, maneuver_stack),
                          !.logged_when =
                              Append(@, [resolved |-> Len(obs.resolved),
                                         supplied |-> logger,
                                         calls |-> Len(log_maneuver_stack(logger, obs.logged,
                                                                          maneuver_stack))
                                                    - Len(obs.logged),
                                         waiting |-> Len(frames),
                                         roster |-> participants])]
    /\ targeting_actions' = <<>>
    /\ current_stack_index' = Len(maneuver_stack) - 1
    /\ pc' = "resolve"
    /\ UNCHANGED <<participants, turn_order, idx, logger, maneuver_stack, frames, call>>

\* A queue instead of a stack: the oldest action is taken first.
stack_pop_front(stack) == [rest |-> Tail(stack), action |-> Head(stack)]

\* Vec::pop (combat.rs:332)
stack_pop(stack) ==
    [rest |-> SubSeq(stack, 1, Len(stack) - 1), action |-> stack[Len(stack)]]

\* Pending entries applied newest first.
RECURSIVE ApplyPendingNewestFirst(_, _, _)
ApplyPendingNewestFirst(pending, index, action) ==
    IF pending = <<>> THEN action
    ELSE ApplyPendingNewestFirst(SubSeq(pending, 1, Len(pending) - 1), index,
                                 IF pending[Len(pending)][1] = index
                                 THEN apply_to_action(pending[Len(pending)][2].effect, action)
                                 ELSE action)

RECURSIVE ApplyPending(_, _, _)
ApplyPending(pending, index, action) ==
    IF pending = <<>> THEN action
    ELSE ApplyPending(Tail(pending), index,
                      IF Head(pending)[1] = index
                      THEN apply_to_action(Head(pending)[2].effect, action)
                      ELSE action)

\* A loop that stops with one action left on the stack.
resolve_done_early(stack) == Len(stack) <= 1

\* `while let Some(..) = self.stack.pop()` ends when the stack is empty.
resolve_done(stack) == stack = <<>>

\* combat.rs:332-361: one iteration of the loop of resolve.
ResolveStep ==
    /\ pc = "resolve"
    /\ LET p      == stack_pop(maneuver_stack)
           action == ApplyPending(targeting_actions, current_stack_index, p.action)
           n      == LoopNext("maneuver", "post_turn")
       IN  /\ maneuver_stack' = p.rest
           /\ participants' = resolve_on_chars(action, participants)
           /\ targeting_actions' =
                IF action.target.kind = "Action"
                THEN Append(targeting_actions, <<action.target.i, action>>)
                ELSE targeting_actions
           /\ current_stack_index' =
                IF current_stack_index # 0 THEN current_stack_index - 1
                ELSE current_stack_index
           /\ obs' = [obs EXCEPT !.resolved = Append(@, p.action.stack_target.i)]
           /\ IF resolve_done(p.rest)
              THEN pc' = n.pc /\ idx' = n.idx
              ELSE pc' = "resolve" /\ idx' = idx
    /\ UNCHANGED <<turn_order, logger, frames, call>>

\* combat.rs:84-91
PostTurnStep ==
    /\ pc = "post_turn"
    /\ LET k == CharIndex(participants, turn_order[idx])
           n == LoopNext("post_turn", "idle")
       IN  /\ participants' = [participants EXCEPT ![k] = post_turn(@)]
           /\ obs' = [obs EXCEPT !.post = Append(@, participants[k].name),
                                 !.result = IF n.pc = "idle" THEN "Ok" ELSE @]
           /\ pc' = n.pc
           /\ idx' = n.idx
    /\ UNCHANGED <<turn_order, logger, maneuver_stack, frames, targeting_actions,
                   current_stack_index, call>>

Next ==
    \/ \E lg \in BOOLEAN : StartTurn(lg)
    \/ PreTurnStep
    \/ Execute
    \/ AddAction
    \/ LogStack
    \/ ResolveStep
    \/ PostTurnStep

Spec == Init /\ [][Next]_vars

\* A call of process_turn is under way and its next step can be taken: the
\* guards of PreTurnStep, Execute, AddAction, LogStack, ResolveStep and
\* PostTurnStep.
Running ==
    \/ pc \in {"pre_turn", "maneuver", "log", "resolve", "post_turn"}
    \/ CanAddAction

\* A step of a running call.  The first disjunct names one changed state
\* outright, so that ENABLED is settled by the guards alone.
Proceeds ==
    /\ Running
    /\ \/ /\ pc' = "idle"
          /\ UNCHANGED <<participants, turn_order, idx, logger, maneuver_stack, frames,
                         targeting_actions, current_stack_index, obs, call>>
       \/ vars' # vars

\* process_turn is straight-line code on one thread: once called it keeps
\* taking its steps.  Whether the caller calls again is left open.
FairSpec == Spec /\ WF_vars(Proceeds)

(***************************************************************************)
(* One Character driven through its public interface (characters.rs), and  *)
(* one Counter asked for its cost (mov.rs).  `call` records the last call: *)
(* its number, the operation, the receiver before it and what it returned. *)
(***************************************************************************)
MaxCalls == 3

MaxTenths == 12

Helmet ==
    NewEquipment("Helmet", "Head", NoReq, <<StatChange("grt", 5)>>, <<>>)

\* Asks for DEX 20 and for nothing else.
GreatSword ==
    NewEquipment("Great Sword", "Weapon", MkStats(20, 0, 0, 0, 0, 0), <<>>, <<>>)

\* Asks for 50 of every stat.
HeavyPlate ==
    NewEquipment("Heavy Plate", "Chest", MkStats(50, 50, 50, 50, 50, 50), <<>>, <<>>)

Catalogue == {CounterRing, TwinRing, Helmet, GreatSword, HeavyPlate}

DirectValues ==
    {CharUnit("HP", -50), CharUnit("HP", 500), CharUnit("MP", 0), CharUnit("MP", 900),
     CharUnit("AP", -4), CharUnit("AP", 40)}

Blows == {Damage(PHY("Strike"), 700), Damage(DamageType("ULT", ""), 30)}

ActorStarts ==
    { NewCharacter("Ann", TestStats),
      Equipped(Equipped(NewCharacter("Ann", TestStats), CounterRing), Helmet) }

CombatIdle ==
    /\ pc = "idle"
    /\ turn_order = <<>>
    /\ idx = 0
    /\ logger = FALSE
    /\ maneuver_stack = <<>>
    /\ frames = <<>>
    /\ targeting_actions = <<>>
    /\ current_stack_index = 0
    /\ obs = Obs0

combat_vars ==
    <<pc, turn_order, idx, logger, maneuver_stack, frames, targeting_actions,
      current_stack_index, obs>>

InitActor ==
    /\ \E c \in ActorStarts : participants = <<c>>
    /\ CombatIdle
    /\ call = NoCall

\* The receiver becomes `after`; the call is recorded.
Called(op, arg, res, after) ==
    /\ call.n < MaxCalls
    /\ call' = [n |-> call.n + 1, res |-> res, op |-> op,
                before |-> participants[1], arg |-> arg]
    /\ participants' = <<after>>
    /\ UNCHANGED combat_vars

Equipping(item, r) == Called("equip", item, r.res, r.c)

CallEquip == \E item \in Catalogue : Equipping(item, equip(participants[1], item))

CallPreTurn == Called("pre_turn", "", "", pre_turn(participants[1]))

CallPostTurn == Called("post_turn", "", "", post_turn(participants[1]))

CallApplyDirectly ==
    \E val \in DirectValues : Called("apply_directly", val, "", apply_directly(participants[1], val))

CallApplyDamage ==
    \E damage \in Blows : Called("apply_damage", damage, "", apply_damage(participants[1], damage))

NextActor ==
    \/ CallEquip
    \/ CallPreTurn
    \/ CallPostTurn
    \/ CallApplyDirectly
    \/ CallApplyDamage

SpecActor == InitActor /\ [][NextActor]_vars

Filters == {PHY(""), DamageType("MAG", "Fire"), DamageType("ULT", "")}

\* Counter::new(filter, i/10, o/10), the factors written as decimal literals.
InitCounter ==
    /\ participants = <<>>
    /\ CombatIdle
    /\ \E filter \in Filters, i, o \in 0..MaxTenths :
          call = [n |-> 0, i |-> i, res |-> 0,
                  counter |-> Counter(filter, F64Lit(i, 10), F64Lit(o, 10)),
                  op |-> "new", o |-> o]

CallMpCost ==
    /\ call.op = "new"
    /\ call' = [call EXCEPT !.op = "mp_cost", !.n = 1, !.res = mp_cost(call.counter)]
    /\ UNCHANGED <<participants, combat_vars>>

CallApCost ==
    /\ call.op = "new"
    /\ call' = [call EXCEPT !.op = "ap_cost", !.n = 1, !.res = ap_cost(call.counter)]
    /\ UNCHANGED <<participants, combat_vars>>

NextCounter ==
    \/ CallMpCost
    \/ CallApCost

SpecCounter == InitCounter /\ [][NextCounter]_vars

(***************************************************************************)
(* One Counter held by "Ann" and asked to react to one announced action    *)
(* (mov.rs:223-253).  The factors are written in tenths.                   *)
(***************************************************************************)
ReactFilters ==
    {PHY(""), PHY("Slash"), DamageType("MAG", ""), DamageType("MAG", "Fire"),
     DamageType("ZAP", ""), DamageType("ZAP", "Volt"), DamageType("ULT", "")}

ReactTenths == {0, 5, 7, 10}

IncomingTypes ==
    {PHY("Slash"), PHY("Strike"), DamageType("MAG", "Fire"), DamageType("MAG", "Ice"),
     DamageType("ZAP", "Volt"), DamageType("ULT", "")}

IncomingAmounts == {0, 7, 19, 90}

IncomingEffects ==
    {Attack(Damage(dt, d)) : dt \in IncomingTypes, d \in IncomingAmounts}
        \cup {Heal(CharUnit("HP", 5)), Cancel, AdjustDamageAbs(3)}

IncomingTargets ==
    {PtrCharacter(<<"Ann">>), PtrCharacter(<<"Bob">>), PtrCharacter(<<"Bob", "Ann">>),
     PtrAction(0), PtrEnvironment}

\* An action as request_reactions shows it: pushed at stack position 2.
Announced(effect, target) ==
    set_stack_location(from_source(PtrCharacter(<<"Bob">>), effect, target), PtrAction(2))

InitReact ==
    /\ participants = <<NewCharacter("Ann", TestStats)>>
    /\ CombatIdle
    /\ \E filter \in ReactFilters, i, o \in ReactTenths :
          call = [n |-> 0, i |-> i, res |-> None,
                  action |-> Announced(Cancel, PtrNone),
                  counter |-> Counter(filter, F64Lit(i, 10), F64Lit(o, 10)),
                  op |-> "new", o |-> o]

Reacting(action) ==
    /\ call.op = "new"
    /\ call' = [call EXCEPT !.op = "react", !.n = 1, !.action = action,
                            !.res = react(call.counter, participants[1], action)]
    /\ UNCHANGED <<participants, combat_vars>>

CallReact ==
    \E effect \in IncomingEffects, target \in IncomingTargets :
        Reacting(Announced(effect, target))

NextReact == CallReact

SpecReact == InitReact /\ [][NextReact]_vars

(***************************************************************************)
(* Combat::process_turn as a function of the roster and the logger: the    *)
(* whole call, composed of the same steps, for comparing two calls.        *)
(***************************************************************************)
MaxTurns == 3

\* ActionStack::build (combat.rs:284-291) with add_action (297-315).
RECURSIVE BuildAll(_, _, _)
BuildPushed(fs, stack, action, rr) ==
    BuildAll(push_frames(fs, rr.reactions, Len(stack)), Append(stack, action),
             rr.participants)

BuildOne(fs, stack, ps, action) ==
    BuildPushed(fs, stack, action, request_reactions(ps, action))

BuildAll(fs, stack, ps) ==
    IF fs = <<>> THEN [participants |-> ps, stack |-> stack]
    ELSE BuildOne(fs, stack, ps,
                  set_stack_location(Head(Head(fs)).action, PtrAction(Len(stack))))

build(actions, ps) == BuildAll(DropDone(<<Entries(actions, -1)>>), <<>>, ps)

\* ActionStack::resolve (combat.rs:324-362).
RECURSIVE ResolveAll(_, _, _, _)
ResolveApplied(rest, targeting, index, ps, action) ==
    ResolveAll(rest,
               IF action.target.kind = "Action"
               THEN Append(targeting, <<action.target.i, action>>) ELSE targeting,
               IF index # 0 THEN index - 1 ELSE index,
               resolve_on_chars(action, ps))

ResolvePopped(p, targeting, index, ps) ==
    ResolveApplied(p.rest, targeting, index, ps, ApplyPending(targeting, index, p.action))

ResolveAll(stack, targeting, index, ps) ==
    IF resolve_done(stack) THEN ps
    ELSE ResolvePopped(stack_pop(stack), targeting, index, ps)

resolve(stack, ps) == ResolveAll(stack, <<>>, Len(stack) - 1, ps)

\* A sink that keeps the stack it is shown, leaving none to resolve.
taken_by_logger(lg, stack) == IF lg THEN <<>> ELSE stack

\* world.rs:114: the sink gets `stack: &ActionStack`, a shared borrow; what
\* process_turn resolves afterwards is the stack as it was built.
lent_to_logger(lg, stack) == stack

\* combat.rs:50-53 and 84-91: the loops over the turn order.
RECURSIVE PreTurns(_, _)
PreTurns(order, ps) ==
    IF order = <<>> THEN ps
    ELSE PreTurns(Tail(order),
                  [ps EXCEPT ![CharIndex(ps, Head(order))] = pre_turn(@)])

RECURSIVE PostTurns(_, _)
PostTurns(order, ps) ==
    IF order = <<>> THEN ps
    ELSE PostTurns(Tail(order),
                   [ps EXCEPT ![CharIndex(ps, Head(order))] = post_turn(@)])

\* combat.rs:56-81: the loop of maneuvers.
RECURSIVE Maneuvers(_, _, _, _, _)
ManeuverBuilt(order, lg, stacks, logged, b) ==
    Maneuvers(Tail(order), resolve(lent_to_logger(lg, b.stack), b.participants), lg,
              Append(stacks, b.stack), log_maneuver_stack(lg, logged, b.stack))

ManeuverExecuted(order, ps, lg, stacks, logged, ex) ==
    IF ex.ok THEN ManeuverBuilt(order, lg, stacks, logged, build(ex.actions, ps))
    ELSE [participants |-> ps, result |-> "panic", logged |-> logged, stacks |-> stacks]

Maneuvers(order, ps, lg, stacks, logged) ==
    IF order = <<>>
    THEN [participants |-> ps, result |-> "Ok", logged |-> logged, stacks |-> stacks]
    ELSE ManeuverExecuted(order, ps, lg, stacks, logged,
                          execute(ps[CharIndex(ps, Head(order))], ps))

ManeuversDone(order, m) ==
    IF m.result = "Ok" THEN [m EXCEPT !.participants = PostTurns(order, @)] ELSE m

TurnInOrder(order, ps, lg) ==
    ManeuversDone(order, Maneuvers(order, PreTurns(order, ps), lg, <<>>, <<>>))

process_turn(ps, lg) == TurnInOrder(build_turn_order(ps), ps, lg)

\* Rosters between rounds: the first member's AP and MP as apply_directly
\* can have left them.
StartAp == {-2, 0, 7}

StartMp == {10, 64}

TurnStarts ==
    { [r EXCEPT ![1] = apply_directly(apply_directly(@, CharUnit("AP", ap)),
                                      CharUnit("MP", mp))] :
        r \in Rosters, ap \in StartAp, mp \in StartMp }

InitTurns ==
    /\ participants \in TurnStarts
    /\ CombatIdle
    /\ call = [n |-> 0, logger |-> FALSE, op |-> "new", from |-> <<>>,
               with |-> [result |-> "none"], without |-> [result |-> "none"]]

\* One call of process_turn on the roster, next to the same call made the
\* other way (with a logger if it had none, without if it had one).
Turned(lg, with, without) ==
    /\ call' = [n |-> call.n + 1, logger |-> lg, op |-> "process_turn",
                from |-> participants, with |-> with, without |-> without]
    /\ participants' = IF lg THEN with.participants ELSE without.participants
    /\ UNCHANGED combat_vars

CallProcessTurn ==
    /\ call.n < MaxTurns
    /\ call.with.result # "panic"
    /\ \E lg \in BOOLEAN :
          Turned(lg, process_turn(participants, TRUE), process_turn(participants, FALSE))

NextTurns == CallProcessTurn

SpecTurns == InitTurns /\ [][NextTurns]_vars

(***************************************************************************)
(* Character::respond_to_action on one ring holder, between regenerations. *)
(***************************************************************************)
MaxResponds == 2

RespondAp == -3 .. 3

RespondMp == {0, 16, 17, 30, 64}

\* A ring whose first counter strikes back for free and whose second is the
\* Counter ring's (17 MP).
MixedRing ==
    NewEquipment("Mixed Ring", "Ring", NoReq, <<>>,
                 <<Counter(PHY(""), F64FromInt(1), F64Lit(3, 10)),
                   Counter(PHY(""), F64FromInt(0), F64FromInt(1))>>)

\* A ring whose counter neither reduces the blow nor strikes back:
\* Counter::new(PHY(""), 1f64, 0f64), for which react builds an empty Vec.
IdleRing ==
    NewEquipment("Idle Ring", "Ring", NoReq, <<>>,
                 <<Counter(PHY(""), F64FromInt(1), F64FromInt(0))>>)

\* What the holder wears, in the order it was equipped.
Loadouts ==
    { <<CounterRing>>, <<TwinRing>>, <<MixedRing>>,
      <<CounterRing, TwinRing>>, <<CounterRing, CounterRing>> }

RECURSIVE EquippedAll(_, _)
EquippedAll(c, items) ==
    IF items = <<>> THEN c ELSE EquippedAll(Equipped(c, Head(items)), Tail(items))

RespondStarts ==
    { apply_directly(apply_directly(EquippedAll(Member("Ann", "Best Friends", TestStats),
                                                items),
                                    CharUnit("AP", ap)),
                     CharUnit("MP", mp)) :
        items \in Loadouts, ap \in RespondAp, mp \in RespondMp }

\* What request_reactions may show the holder, and what others answered before.
RespondActions ==
    { Announced(Attack(Damage(PHY("Strike"), 19)), PtrCharacter(<<"Ann">>)),
      Announced(Attack(Damage(DamageType("MAG", "Fire"), 19)), PtrCharacter(<<"Ann">>)),
      Announced(Attack(Damage(PHY("Strike"), 19)), PtrCharacter(<<"Bob">>)) }

EarlierReactions ==
    { <<>>, <<from_source(PtrCharacter(<<"Bob">>), AdjustDamageAbs(3), PtrAction(2))>> }

InitRespond ==
    /\ \E c \in RespondStarts : participants = <<c>>
    /\ CombatIdle
    /\ call = [n |-> 0, reactions |-> <<>>, action |-> Announced(Cancel, PtrNone),
               op |-> "new", before |-> participants[1],
               earlier |-> <<>>, reacted_at |-> <<>>]

Responded(action, earlier, r) ==
    /\ call' = [call EXCEPT !.op = "respond_to_action", !.n = @ + 1,
                            !.before = participants[1], !.action = action,
                            !.earlier = earlier, !.reactions = r.reactions,
                            !.reacted_at = IF r.reactions # earlier
                                           THEN Append(@, participants[1].ap) ELSE @]
    /\ participants' = <<r.c>>
    /\ UNCHANGED combat_vars

CallRespond ==
    /\ call.n < MaxResponds
    /\ \E action \in RespondActions, earlier \in EarlierReactions :
          Responded(action, earlier, respond_to_action(participants[1], action, earlier))

\* The regeneration of the next round's pre_turn phase.
RespondPreTurn ==
    /\ call.n < MaxResponds
    /\ call' = [call EXCEPT !.op = "pre_turn", !.n = @ + 1, !.before = participants[1]]
    /\ participants' = <<pre_turn(participants[1])>>
    /\ UNCHANGED combat_vars

NextRespond == CallRespond \/ RespondPreTurn

SpecRespond == InitRespond /\ [][NextRespond]_vars

(***************************************************************************)
(* The same calls on a holder of the idle ring, alone or behind the        *)
(* Counter ring.                                                           *)
(***************************************************************************)
IdleLoadouts == { <<IdleRing>>, <<IdleRing, CounterRing>> }

IdleStarts ==
    { apply_directly(apply_directly(EquippedAll(Member("Ann", "Best Friends", TestStats),
                                                items),
                                    CharUnit("AP", ap)),
                     CharUnit("MP", mp)) :
        items \in IdleLoadouts, ap \in {-3, 0, 3}, mp \in {16, 17} }

InitIdle ==
    /\ \E c \in IdleStarts : participants = <<c>>
    /\ CombatIdle
    /\ call = [n |-> 0, reactions |-> <<>>, action |-> Announced(Cancel, PtrNone),
               op |-> "new", before |-> participants[1],
               earlier |-> <<>>, reacted_at |-> <<>>]

SpecIdle == InitIdle /\ [][NextRespond]_vars

(***************************************************************************)
(* Character::apply_damage on one character, blow after blow.              *)
(***************************************************************************)
MaxBlows == 2

BlowTypes ==
    {PHY("Strike"), DamageType("MAG", "Fire"), DamageType("ZAP", "Volt"),
     DamageType("ULT", "")}

BlowAmounts == {-3, 0, 5, 11, 22, 500}

DamageBlows == {Damage(dt, a) : dt \in BlowTypes, a \in BlowAmounts}

\* Physical / magical defense 10 / 9, 16 / 9 (Helmet: +5 GRT) and 21 / 21.
DamageStarts ==
    { NewCharacter("Ann", TestStats),
      Equipped(NewCharacter("Ann", TestStats), Helmet),
      NewCharacter("Ann", Nines) }

InitDamage ==
    /\ \E c \in DamageStarts : participants = <<c>>
    /\ CombatIdle
    /\ call = [n |-> 0, damage |-> Damage(PHY(""), 0), op |-> "new",
               before |-> participants[1]]

Struck(damage) ==
    /\ call.n < MaxBlows
    /\ call' = [n |-> call.n + 1, damage |-> damage, op |-> "apply_damage",
                before |-> participants[1]]
    /\ participants' = <<apply_damage(participants[1], damage)>>
    /\ UNCHANGED combat_vars

CallDamage == \E damage \in DamageBlows : Struck(damage)

NextDamage == CallDamage

SpecDamage == InitDamage /\ [][NextDamage]_vars

(***************************************************************************)
(* Action::resolve_on_chars: one resolved action after another on a roster *)
(* of two.                                                                 *)
(***************************************************************************)
MaxResolves == 2

Units == {"HP", "MP", "AP", "VIT"}

HealValues == {-5, 5, 900}

\* The character-targeting payloads (combat.rs:391-408).
ResolvedEffects ==
    {Heal(CharUnit(u, v)) : u \in Units, v \in HealValues}
        \cup {GiveTimedEffect(StatChange("dex", 10), 2),
              Attack(Damage(PHY("Strike"), 19))}

ResolvedTargets ==
    {PtrCharacter(<<"Ann">>), PtrCharacter(<<"Ann", "Bob">>), PtrCharacter(<<"Cyd">>),
     PtrEnvironment}

\* Ann full, or in debt: AP -2 after three paid reactions, MP -12 after a
\* ZAP blow.
ResolveRosters ==
    { << Member("Ann", "Best Friends", TestStats), Member("Bob", "Baddies!", Nines) >>,
      << apply_damage(Pay(Pay(Pay(Member("Ann", "Best Friends", TestStats),
                                  TwinRing.reactions[1], 0),
                              TwinRing.reactions[1], 0),
                          TwinRing.reactions[1], 0),
                      Damage(DamageType("ZAP", "Volt"), 80)),
         Member("Bob", "Baddies!", Nines) >> }

InitResolve ==
    /\ participants \in ResolveRosters
    /\ CombatIdle
    /\ call = [n |-> 0, action |-> from_source(PtrNone, Cancel, PtrNone), op |-> "new",
               before |-> participants]

ResolvedOnChars(action) ==
    /\ call.n < MaxResolves
    /\ call' = [n |-> call.n + 1, action |-> action, op |-> "resolve_on_chars",
                before |-> participants]
    /\ participants' = resolve_on_chars(action, participants)
    /\ UNCHANGED combat_vars

CallResolveOnChars ==
    \E effect \in ResolvedEffects, target \in ResolvedTargets :
        ResolvedOnChars(from_source(PtrCharacter(<<"Bob">>), effect, target))

NextResolve == CallResolveOnChars

SpecResolve == InitResolve /\ [][NextResolve]_vars

(***************************************************************************)
(* Timed effects on one character: apply_timed_effect and post_turn.       *)
(***************************************************************************)
MaxEffectCalls == 4

MaxDuration == 3

TimedEffects == {StatChange("cha", 20), Fleeting}

InitEffects ==
    /\ participants = <<NewCharacter("Ann", TestStats)>>
    /\ CombatIdle
    /\ call = [n |-> 0, op |-> "new", before |-> participants[1]]

EffectCalled(op, after) ==
    /\ call.n < MaxEffectCalls
    /\ call' = [n |-> call.n + 1, op |-> op, before |-> participants[1]]
    /\ participants' = <<after>>
    /\ UNCHANGED combat_vars

CallApplyTimedEffect ==
    \E effect \in TimedEffects, d \in 1..MaxDuration :
        EffectCalled("apply_timed_effect", apply_timed_effect(participants[1], effect, d))

EffectsPostTurn == EffectCalled("post_turn", post_turn(participants[1]))

NextEffects == CallApplyTimedEffect \/ EffectsPostTurn

SpecEffects == InitEffects /\ [][NextEffects]_vars

(***************************************************************************)
(* Rounds on rosters with fallen members: the steps of process_turn from   *)
(* rosters where some or all members start with HP zero or below.          *)
(***************************************************************************)
\* The character after a Heal of negative HP value that leaves it at hp.
Fallen(c, hp) == apply_directly(c, CharUnit("HP", hp - c.hp))

FallenRosters ==
    { \* a ring holder at HP 0 against an unharmed enemy
      << Fallen(Equipped(Member("Ann", "Best Friends", TestStats), CounterRing), 0),
         Member("Bob", "Baddies!", TestStats) >>,
      \* one party has no member left standing
      << Fallen(Member("Ann", "Best Friends", Nines), -300),
         Member("Bob", "Baddies!", Nines) >>,
      \* nobody is left standing
      << Fallen(Equipped(Member("Ann", "Best Friends", TestStats), CounterRing), -300),
         Fallen(Member("Bob", "Baddies!", TestStats), -5) >>,
      \* a fallen member beside a standing one of the same party
      << Fallen(Member("Ann", "Best Friends", TestStats), -300),
         Equipped(Member("Bob", "Baddies!", TestStats), CounterRing),
         Member("Cyd", "Best Friends", MkStats(5, 3, 3, 3, 3, 4)) >> }

InitFallen ==
    /\ participants \in FallenRosters
    /\ pc = "idle"
    /\ turn_order = <<>>
    /\ idx = 0
    /\ logger = FALSE
    /\ maneuver_stack = <<>>
    /\ frames = <<>>
    /\ targeting_actions = <<>>
    /\ current_stack_index = 0
    /\ obs = Obs0
    /\ call = NoCall

SpecFallen == InitFallen /\ [][Next]_vars

(***************************************************************************)
(* ActionStack::resolve on stacks as add_action builds them: a maneuver's  *)
(* action at position 0 and above it reactions, each aimed at a character  *)
(* or, through build_self_target, at an action pushed before it.           *)
(***************************************************************************)
MaxDepth == 3

StackRoster ==
    << Member("Ann", "Best Friends", TestStats), Member("Bob", "Baddies!", Nines) >>

\* What a maneuver of Bob puts at position 0.
FirstActions ==
    { from_source(PtrCharacter(<<"Bob">>), Attack(Damage(PHY("Strike"), 90)),
                  PtrCharacter(<<"Ann">>)),
      from_source(PtrCharacter(<<"Bob">>), Attack(Damage(DamageType("MAG", "Fire"), 90)),
                  PtrCharacter(<<"Ann">>)),
      from_source(PtrCharacter(<<"Bob">>), Attack(Damage(DamageType("ZAP", "Volt"), 100)),
                  PtrCharacter(<<"Ann">>)),
      from_source(PtrCharacter(<<"Bob">>), Attack(Damage(DamageType("ULT", ""), 90)),
                  PtrCharacter(<<"Ann", "Bob">>)),
      from_source(PtrCharacter(<<"Bob">>), Heal(CharUnit("HP", -5)),
                  PtrCharacter(<<"Ann">>)) }

\* The action-targeting payloads (combat.rs:409-422).
TargetingEffects ==
    { Cancel, AdjustDamageAbs(4), AdjustDamageAbs(-100),
      AdjustDamageMul(F64Lit(7, 10)), AdjustDamageMul(F64Lit(5, 10)),
      ChangeTarget(PtrCharacter(<<"Bob">>)), ChangeTarget(PtrAction(0)),
      ChangeTarget(PtrEnvironment), ChangeTarget(PtrEffect) }

\* What Ann's reactions may add above a stack of n actions.
ReactionsAbove(n) ==
    { from_source(PtrCharacter(<<"Ann">>), e, PtrAction(j)) :
        e \in TargetingEffects, j \in 0 .. n - 1 }
    \cup { from_source(PtrCharacter(<<"Ann">>), Attack(Damage(PHY("Strike"), 19)),
                       PtrCharacter(<<"Bob">>)) }

\* add_action: the action gets its position, then it is pushed.
Push(stack, action) == Append(stack, set_stack_location(action, PtrAction(Len(stack))))

RECURSIVE BuiltStacks(_)
BuiltStacks(n) ==
    IF n = 1 THEN { Push(<<>>, a) : a \in FirstActions }
    ELSE { Push(s, a) : s \in BuiltStacks(n - 1), a \in ReactionsAbove(n - 1) }

InitStack ==
    /\ participants = StackRoster
    /\ \E n \in 1 .. MaxDepth : maneuver_stack \in BuiltStacks(n)
    /\ pc = "log"
    /\ turn_order = <<"Ann", "Bob">>
    /\ idx = 2
    /\ logger = TRUE
    /\ frames = <<>>
    /\ targeting_actions = <<>>
    /\ current_stack_index = 0
    /\ obs = [Obs0 EXCEPT !.round = 1, !.result = "running", !.start = participants,
                          !.man = <<"Bob">>, !.mstart = participants]
    /\ call = NoCall

NextStack == LogStack \/ ResolveStep

SpecStack == InitStack /\ [][NextStack]_vars

(***************************************************************************)
(* Rounds of actors whose derived maximum AP changes while they run: the   *)
(* rosters of Spec and one whose first actor is slowed for the first round *)
(* (StatChange::DEX(-10) for one turn: max_ap is -2 while it lasts, 1      *)
(* afterwards).                                                            *)
(***************************************************************************)
Slowed ==
    << apply_timed_effect(Member("Ann", "Best Friends", MkStats(1, 1, 1, 1, 1, 1)),
                          StatChange("dex", -10), 1),
       Member("Bob", "Baddies!", TestStats) >>

InitDebt ==
    /\ participants \in Rosters \cup {Slowed}
    /\ pc = "idle"
    /\ turn_order = <<>>
    /\ idx = 0
    /\ logger = FALSE
    /\ maneuver_stack = <<>>
    /\ frames = <<>>
    /\ targeting_actions = <<>>
    /\ current_stack_index = 0
    /\ obs = Obs0
    /\ call = NoCall

SpecDebt == InitDebt /\ [][Next]_vars

(***************************************************************************)
(* Properties of the action stack and of the round (under Spec).           *)
(***************************************************************************)
\* Position (0-based) of the action that provoked the one at position p, -1 for
\* the maneuver's own action.
ParentOf(p) == obs.parent[p + 1]

\* Mobility a roster member had when the round's reactions were solicited
\* (nothing changes it between the start of a round and its post_turn phase).
Mob(name) == obs.mob0[CharIndex(participants, name)]

\* Claim C1: resolution is strictly last-in-first-out.  The actions of a built
\* stack are resolved in descending stack position, starting with the top one,
\* and so every action is resolved before the action that provoked it: when A
\* provokes B and B provokes C the order is C, B, A.
C1_ResolvesLastInFirstOut ==
    /\ \A k \in DOMAIN obs.resolved : obs.resolved[k] = obs.built - k
    /\ pc = "resolve" => Len(maneuver_stack) = obs.built - Len(obs.resolved)
    /\ \A i, j \in DOMAIN obs.resolved :
          ParentOf(obs.resolved[j]) = obs.resolved[i] => j < i

\* A stack that held a chain A -> B -> C has been resolved to the end, C first.
C1_ChainResolved ==
    /\ pc \in {"maneuver", "post_turn"}
    /\ obs.built >= 3
    /\ Len(obs.resolved) = obs.built
    /\ \E i, j, k \in DOMAIN obs.resolved :
          /\ i < j /\ j < k
          /\ ParentOf(obs.resolved[i]) = obs.resolved[j]
          /\ ParentOf(obs.resolved[j]) = obs.resolved[k]
          /\ ParentOf(obs.resolved[k]) = -1

\* Claim C2: the stack is built depth-first in pre-order.  Every pushed action
\* is asked for reactions exactly once, in the step that pushes it; the
\* reactions it got are all on the stack when the build ends; and whatever lies
\* between an action and one of its reactions descends from that action, so
\* each reaction's own reactions come before its next sibling.
C2_DepthFirstBuild ==
    /\ Len(obs.solicits) = Len(obs.parent)
    /\ \A k \in DOMAIN obs.solicits : obs.solicits[k].pos = k - 1
    /\ pc \in {"build", "log"} =>
          /\ Len(maneuver_stack) = Len(obs.solicits)
          /\ \A k \in DOMAIN maneuver_stack :
                maneuver_stack[k].stack_target = PtrAction(k - 1)
    /\ pc = "resolve" => obs.built = Len(obs.solicits)
    /\ \A j \in DOMAIN obs.parent :
          /\ obs.parent[j] < j - 1
          /\ \A k \in (obs.parent[j] + 2)..(j - 1) : obs.parent[k] >= obs.parent[j]
    /\ pc \in {"log", "resolve"} =>
          \A k \in DOMAIN obs.solicits :
              Cardinality({j \in DOMAIN obs.parent : obs.parent[j] = k - 1})
                  = obs.solicits[k].got

\* A built stack in which an action got two reactions and the first of them
\* was itself answered before the second was pushed.
C2_NestedBeforeSibling ==
    /\ pc = "log"
    /\ \E i, j, k \in DOMAIN obs.parent :
          /\ i < k /\ k < j
          /\ obs.parent[i] = obs.parent[j]
          /\ obs.parent[k] = i - 1

\* Claim C3: whenever reactions are solicited, the least mobile actor is asked
\* first and the most mobile actor is asked last.
C3_LeastMobileAskedFirst ==
    \A k \in DOMAIN obs.solicits :
        \A j \in DOMAIN obs.solicits[k].asked :
            /\ Mob(obs.solicits[k].asked[1]) <= Mob(obs.solicits[k].asked[j])
            /\ Mob(obs.solicits[k].asked[j])
                   <= Mob(obs.solicits[k].asked[Len(obs.solicits[k].asked)])

Turn(k) == CharIndex(participants, turn_order[k])

\* Claim C5: in a process_turn call the maneuvers follow the order fixed at
\* the start of the round, ascending in the mobilities computed then; nobody
\* moves twice, and once the maneuver phase is over every roster member has
\* moved exactly once.  A mobility change during the round leaves that order
\* alone and shows in the order of the next round.
C5_OneManeuverEachAscending ==
    /\ Len(obs.man) <= Len(turn_order)
    /\ \A k \in DOMAIN obs.man : obs.man[k] = turn_order[k]
    /\ \A i, j \in DOMAIN turn_order :
          i < j => obs.mob0[Turn(i)] <= obs.mob0[Turn(j)]
    /\ obs.round > 0 =>
          /\ Len(turn_order) = Len(participants)
          /\ \A m \in DOMAIN participants :
                Cardinality({k \in DOMAIN turn_order :
                                turn_order[k] = participants[m].name}) = 1
    /\ pc \in {"post_turn", "idle"} /\ obs.round > 0 => obs.man = turn_order
    /\ pc \in {"build", "log", "resolve"} => Len(obs.man) = idx
    /\ pc \in {"pre_turn", "maneuver", "build", "log", "resolve"} =>
          \A m \in DOMAIN participants :
              mobility(calculate_current_stats(participants[m])) = obs.mob0[m]

\* The second round has run its maneuvers in another order than the first,
\* because a timed effect ran out during the first.
C5_OrderChangedNextRound ==
    /\ obs.round = 2
    /\ pc = "post_turn"
    /\ obs.man = turn_order
    /\ obs.prev_order # turn_order
    /\ obs.mob0[Turn(1)] < obs.mob0[Turn(2)]

\* Claim C6: the phases of a process_turn call are strictly ordered.  pre_turn
\* has run for every actor before a stack is built; a stack is completely
\* built before it is resolved and completely resolved, left empty, before the
\* next actor's stack is started; post_turn runs only after the last stack is
\* resolved, for every actor, and then the call returns success.
C6_PhasesInOrder ==
    /\ pc \in {"maneuver", "build", "log", "resolve", "post_turn"} =>
          obs.pre = turn_order
    /\ pc = "pre_turn" => obs.man = <<>> /\ obs.post = <<>> /\ obs.solicits = <<>>
    /\ pc \in {"log", "resolve"} => frames = <<>>
    /\ pc = "log" => maneuver_stack # <<>>
    /\ pc \in {"maneuver", "post_turn"} =>
          /\ maneuver_stack = <<>>
          /\ frames = <<>>
          /\ Len(obs.resolved) = obs.built
          /\ obs.built = Len(obs.solicits)
    /\ pc # "post_turn" /\ obs.result # "Ok" => obs.post = <<>>
    /\ pc = "post_turn" => obs.man = turn_order
    /\ obs.result = "Ok" <=> pc = "idle" /\ obs.round > 0
    /\ obs.result = "Ok" =>
          /\ obs.pre = turn_order /\ obs.man = turn_order /\ obs.post = turn_order
          /\ maneuver_stack = <<>>

\* A call has returned success after three stacks were built and resolved.
C6_RoundReturned ==
    /\ obs.result = "Ok"
    /\ Len(obs.man) = 3
    /\ Len(obs.post) = 3
    /\ Len(obs.logged) = 3
    /\ \E k \in DOMAIN obs.logged : Len(obs.logged[k]) >= 2

(***************************************************************************)
(* Properties of a Character's calls (under SpecActor).                    *)
(***************************************************************************)
\* Current stats of the receiver before the recorded call.
StatsBefore == calculate_current_stats(call.before)

\* Claim C7: after pre_turn each of HP, MP and AP is the smaller of its
\* previous value plus its regeneration rate (health regen, magic regen, AP
\* per turn) and its derived maximum, so none of them is above its maximum,
\* whatever it was before.
C7_PreTurnRegenClamped ==
    call.op = "pre_turn" =>
        /\ participants[1].hp
              = Min(call.before.hp + health_regen(StatsBefore), max_hp(StatsBefore))
        /\ participants[1].mp
              = Min(call.before.mp + magic_regen(StatsBefore), max_mp(StatsBefore))
        /\ participants[1].ap
              = Min(call.before.ap + action_points(StatsBefore), max_ap(StatsBefore))
        /\ participants[1].hp <= max_hp(calculate_current_stats(participants[1]))
        /\ participants[1].mp <= max_mp(calculate_current_stats(participants[1]))
        /\ participants[1].ap <= max_ap(calculate_current_stats(participants[1]))

\* pre_turn has cut an HP above the maximum down to it and has raised an MP
\* far below the maximum by the regeneration rate only.
C7_ClampedAndRegenerated ==
    /\ call.op = "pre_turn"
    /\ call.before.hp > max_hp(StatsBefore)
    /\ participants[1].hp = max_hp(StatsBefore)
    /\ call.before.mp + magic_regen(StatsBefore) < max_mp(StatsBefore)
    /\ participants[1].mp > call.before.mp
    /\ participants[1].mp < max_mp(StatsBefore)

\* Claim C8: equip on an actor that already holds 3 items returns the capacity
\* error and leaves the equipment list as it was; the list never holds more
\* than 3 items.
C8_EquipAtCapacityRejected ==
    /\ Len(participants[1].equipment) <= 3
    /\ call.op = "equip" /\ Len(call.before.equipment) >= 3 =>
          /\ call.res = "Cannot equip more than 3 items."
          /\ participants[1].equipment = call.before.equipment

\* A fourth item was offered to an actor holding three, which could wear it
\* as far as its stats and its type go.
C8_FourthItemOffered ==
    /\ call.op = "equip"
    /\ Len(call.before.equipment) = 3
    /\ call.arg.stat_requirements = NoReq
    /\ can_equip(call.arg.eq_type, call.before)
    /\ call.res = "Cannot equip more than 3 items."

\* The actor's current stats lack at least one of the six required stats.
LacksAStat(s, req) ==
    \/ s.dex < req.dex \/ s.str < req.str \/ s.grt < req.grt
    \/ s.wil < req.wil \/ s.cha < req.cha \/ s.int < req.int

\* Claim C9: equip (on an actor with room for the item) fails with the
\* requirement error, leaving the equipment list unchanged, exactly when at
\* least one of the actor's six current stats is lower than the stat the item
\* requires.
C9_RequirementNeedsEveryStat ==
    call.op = "equip" /\ Len(call.before.equipment) < 3 =>
        /\ call.res = "Not meeting the stat requirement."
              <=> LacksAStat(StatsBefore, call.arg.stat_requirements)
        /\ call.res = "Not meeting the stat requirement."
              => participants[1].equipment = call.before.equipment

(***************************************************************************)
(* Properties of Counter::mp_cost (under SpecCounter).                     *)
(***************************************************************************)
\* floor(10 * max(0, 0.7 - i/10)) + floor(15 * max(0, o/10 - 0.3)) in exact
\* arithmetic.
ExactCost(i, o) == Max(0, 7 - i) + ((15 * Max(0, o - 3)) \div 10)

\* Claim C10: the MP cost of a Counter is
\* floor(10 * max(0, 0.7 - incoming)) + floor(15 * max(0, outgoing - 0.3)),
\* which is 2 + 3 = 5 for Counter(filter, 0.5, 0.5).
C10_MpCostFormula ==
    call.op = "mp_cost" => call.res = ExactCost(call.i, call.o)

(***************************************************************************)
(* Properties of Counter::react (under SpecReact).                         *)
(***************************************************************************)
\* The announced action is an Attack aimed at the reacting actor.
AttackOnMe ==
    /\ call.action.effect.tag = "Attack"
    /\ call.action.target.kind = "Character"
    /\ \E k \in DOMAIN call.action.target.chars :
          call.action.target.chars[k] = participants[1].name

\* Claim C11: a Counter with a PHY, MAG or ZAP filter reacts exactly when the
\* action is an Attack, the reacting actor is among its character targets,
\* the damage category is the filter's and the filter's subtype is empty or
\* the damage subtype; an incoming ULT attack is never countered.
C11_CounterFiresOnMatchingAttack ==
    call.op = "react" =>
        /\ call.counter.damage_type.cat \in {"PHY", "MAG", "ZAP"} =>
              (call.res.some <=>
                  /\ AttackOnMe
                  /\ call.action.effect.dmg.dt.cat = call.counter.damage_type.cat
                  /\ \/ call.counter.damage_type.sub = ""
                     \/ call.counter.damage_type.sub = call.action.effect.dmg.dt.sub)
        /\ call.action.effect.tag = "Attack" /\ call.action.effect.dmg.dt.cat = "ULT"
              => ~call.res.some

\* Counter(PHY("")) has reacted to a PHY("Slash") attack aimed at Bob and Ann.
C11_AnyPhysicalCountered ==
    /\ call.op = "react"
    /\ call.counter.damage_type = PHY("")
    /\ call.action.effect.tag = "Attack"
    /\ call.action.effect.dmg.dt = PHY("Slash")
    /\ call.action.target = PtrCharacter(<<"Bob", "Ann">>)
    /\ call.res.some

\* Claim C12 as stated: a Counter whose filter is ULT never reacts.
C12_UltFilterNeverReacts ==
    call.op = "react" /\ call.counter.damage_type.cat = "ULT" => ~call.res.some

\* Claim C12, amended: a Counter whose filter is ULT reacts to every Attack
\* aimed at the reacting actor whose damage type is not ULT, and to nothing
\* else.
C12_UltFilterCountersAllButUlt ==
    call.op = "react" /\ call.counter.damage_type.cat = "ULT" =>
        (call.res.some <=> AttackOnMe /\ call.action.effect.dmg.dt.cat # "ULT")

\* A Counter with the ULT filter has reacted to a MAG("Fire") attack.
C12_UltFilterReacted ==
    /\ call.op = "react"
    /\ call.counter.damage_type.cat = "ULT"
    /\ call.action.effect.tag = "Attack"
    /\ call.action.effect.dmg.dt = DamageType("MAG", "Fire")
    /\ call.res.some

\* The reduction a firing Counter announces: aimed at the triggering action's
\* stack position.
ExpectedReduction ==
    from_source(PtrCharacter(<<participants[1].name>>),
                AdjustDamageMul(call.counter.incoming_factor),
                call.action.stack_target)

\* The return blow a firing Counter announces, of the given amount: aimed at
\* the triggering action's source, with the triggering damage type.
ExpectedReturn(amount) ==
    from_source(PtrCharacter(<<participants[1].name>>),
                Attack(Damage(call.action.effect.dmg.dt, amount)),
                call.action.source)

\* Claim C13: a Counter that fires on an attack of amount d produces, in this
\* order, an AdjustDamageMul(incoming) aimed at the triggering action's stack
\* position, exactly when incoming # 1, and an Attack of the same damage type
\* and of amount outgoing * d (its integer part) aimed at the triggering
\* action's source, exactly when outgoing # 0; both are sourced from the
\* reacting actor.
C13_CounterActions ==
    call.op = "react" /\ call.res.some =>
        call.res.actions =
            (IF call.i # 10 THEN <<ExpectedReduction>> ELSE <<>>)
            \o (IF call.o # 0
                THEN <<ExpectedReturn((call.o * call.action.effect.dmg.amount) \div 10)>>
                ELSE <<>>)

\* What holds of the actions of a firing Counter whatever the amount of the
\* return blow: their number, order, source, targets and damage type.
C13_CounterActionsShape ==
    call.op = "react" /\ call.res.some =>
        /\ Len(call.res.actions) = (IF call.i # 10 THEN 1 ELSE 0) + (IF call.o # 0 THEN 1 ELSE 0)
        /\ call.i # 10 => call.res.actions[1] = ExpectedReduction
        /\ call.o # 0 =>
              call.res.actions[Len(call.res.actions)]
                  = ExpectedReturn(call.res.actions[Len(call.res.actions)].effect.dmg.amount)

\* A Counter with both factors at work (0.5, 0.5) has fired on an attack of 19.
C13_BothActionsProduced ==
    /\ call.op = "react"
    /\ call.i = 5 /\ call.o = 5
    /\ call.action.effect.tag = "Attack"
    /\ call.action.effect.dmg.amount = 19
    /\ Len(call.res.actions) = 2
    /\ call.res.actions[2].effect.dmg.amount = 9

(***************************************************************************)
(* End-to-end properties of a round (under Spec).                          *)
(***************************************************************************)
\* Amount of the barehanded blow of a roster member (mov.rs:82-86).
BlowAmount(c) ==
    Max(ScaleTrunc((calculate_current_stats(c).dex + calculate_current_stats(c).str) * 3
                      + calculate_current_stats(c).grt + calculate_current_stats(c).int,
                   45, 100), 1)

\* The call started from two freshly created, unequipped actors in opposing
\* parties.
FreshDuel ==
    /\ obs.round = 1
    /\ Len(obs.start) = 2
    /\ obs.start[1].party # obs.start[2].party
    /\ \A k \in {1, 2} :
          /\ obs.start[k].equipment = <<>>
          /\ obs.start[k].timed_effects = <<>>
          /\ obs.start[k] = set_party(NewCharacter(obs.start[k].name, obs.start[k].base_stats),
                                      obs.start[k].party)

\* Claim C14: with two freshly created, unequipped actors in opposing
\* single-member parties, an actor whose physical defense is below the
\* opponent's barehanded damage has, after one process_turn call, strictly
\* less HP than before the call.
C14_DuelLowersHp ==
    FreshDuel /\ obs.result = "Ok" =>
        \A k \in {1, 2} :
            BlowAmount(obs.start[3 - k]) > phys_defense(calculate_current_stats(obs.start[k]))
                => participants[k].hp < obs.start[k].hp

\* The call has returned for two actors with all stats 9, both hit.
C14_NinesDuelDone ==
    /\ FreshDuel
    /\ obs.result = "Ok"
    /\ obs.start[1].base_stats = Nines /\ obs.start[2].base_stats = Nines
    /\ BlowAmount(obs.start[1]) > phys_defense(Nines)
    /\ participants[1].hp < obs.start[1].hp
    /\ participants[2].hp < obs.start[2].hp
    /\ Names(participants) = Names(obs.start)

\* The maneuver whose stack was built last: its action, who made it, whom it
\* is aimed at, and both as they were when the maneuver started.
FirstAction == obs.first[1]

AttackerBefore == obs.mstart[CharIndex(obs.mstart, FirstAction.source.chars[1])]

DefenderBefore == obs.mstart[CharIndex(obs.mstart, FirstAction.target.chars[1])]

DefenderNow == participants[CharIndex(participants, FirstAction.target.chars[1])]

AttackerNow == participants[CharIndex(participants, FirstAction.source.chars[1])]

FullCounter == Counter(PHY(""), F64FromInt(0), F64FromInt(1))

\* The last maneuver has been built and resolved to the end.
ManeuverResolved ==
    /\ pc \in {"maneuver", "post_turn"}
    /\ obs.first # <<>>
    /\ obs.built >= 1
    /\ Len(obs.resolved) = obs.built

\* The actions of the last stack that were announced as attacks on `name`.
AttacksOn(name) ==
    { k \in DOMAIN obs.solicits :
        /\ obs.solicits[k].action.effect.tag = "Attack"
        /\ targets_character(obs.solicits[k].action, name) }

\* `name` as it was when the k-th action of the last stack was announced.
WhenSolicited(k, name) ==
    obs.solicits[k].before[CharIndex(obs.solicits[k].before, name)]

CanPay(c, reaction) == c.ap >= 0 /\ c.mp >= mp_cost(reaction)

Holds(c, reaction) ==
    \E k \in DOMAIN all_current_reactions(c) : all_current_reactions(c)[k] = reaction

\* The defender held Counter(PHY(""), 0, 1) and could pay for it each time an
\* attack on it was announced.
DefenderCounters ==
    /\ Holds(DefenderBefore, FullCounter)
    /\ \A k \in AttacksOn(DefenderBefore.name) :
          CanPay(WhenSolicited(k, DefenderBefore.name), FullCounter)

\* Claim C15: if the defender holds Counter(PHY(""), incoming 0, outgoing 1),
\* has non-negative AP and has the MP the Counter costs when it is solicited,
\* the resolution of the attacker's barehanded maneuver leaves the defender's
\* HP as it was.
C15_DefenderUnharmed ==
    ManeuverResolved /\ DefenderCounters => DefenderNow.hp = DefenderBefore.hp

\* A maneuver against a paying Counter holder has been resolved; the blow
\* would have hurt without the Counter.
C15_CounteredBlowResolved ==
    /\ ManeuverResolved
    /\ DefenderCounters
    /\ FirstAction.effect.tag = "Attack"
    /\ FirstAction.effect.dmg.amount
          > phys_defense(calculate_current_stats(DefenderBefore))
    /\ obs.built = 3
    /\ DefenderNow.hp = DefenderBefore.hp
    /\ DefenderNow.mp = DefenderBefore.mp - mp_cost(FullCounter)

\* The attacker held no reaction when its maneuver started, and the defender
\* countered it.
CounteredAttacker ==
    /\ ManeuverResolved
    /\ DefenderCounters
    /\ FirstAction.effect.tag = "Attack"
    /\ AttackerBefore.name # DefenderBefore.name
    /\ all_current_reactions(AttackerBefore) = <<>>

OriginalAmount == FirstAction.effect.dmg.amount

\* Claim C16 as stated: after the maneuver of an attacker without reactions
\* against a paying holder of Counter(PHY(""), 0, 1) has resolved, the
\* attacker's HP is lower than before, by exactly the original damage amount.
C16_AttackerLosesFullAmount ==
    CounteredAttacker =>
        /\ AttackerNow.hp < AttackerBefore.hp
        /\ AttackerNow.hp = AttackerBefore.hp - OriginalAmount

\* Claim C16, amended: the returned attack carries the full original amount,
\* and the attacker's HP is lower by that amount less the attacker's own
\* physical defense, floored at zero.
C16_AttackerLosesAmountLessDefense ==
    CounteredAttacker =>
        /\ \E k \in AttacksOn(AttackerBefore.name) :
              obs.solicits[k].action.effect
                  = Attack(Damage(FirstAction.effect.dmg.dt, OriginalAmount))
        /\ AttackerNow.hp = AttackerBefore.hp
              - Max(OriginalAmount - phys_defense(calculate_current_stats(AttackerBefore)), 0)

\* The returned blow has been resolved on an attacker with a positive
\* physical defense.
C16_ReturnedBlowResolved ==
    /\ CounteredAttacker
    /\ phys_defense(calculate_current_stats(AttackerBefore)) > 0
    /\ OriginalAmount > phys_defense(calculate_current_stats(AttackerBefore))
    /\ AttackerNow.hp < AttackerBefore.hp
    /\ AttackerNow.hp > AttackerBefore.hp - OriginalAmount

RECURSIVE SumGot(_)
SumGot(solicits) ==
    IF solicits = <<>> THEN 0 ELSE Head(solicits).got + SumGot(Tail(solicits))

\* The stacks of this round whose build is over.
StacksBuilt == IF pc \in {"build", "log"} THEN Len(obs.man) - 1 ELSE Len(obs.man)

\* Claim C17: a logger supplied to process_turn is invoked exactly once per
\* actor-turn, roster-size times per round; each time the actor's stack is
\* completely built (the maneuver's actions and every reaction obtained are on
\* it, nothing waits to be added) and none of its actions has been resolved.
C17_LoggedOncePerStack ==
    logger /\ obs.result \in {"running", "Ok"} =>
        /\ Len(obs.logged) = StacksBuilt
        /\ Len(obs.logged_when) = StacksBuilt
        /\ obs.result = "Ok" => Len(obs.logged) = Len(participants)
        /\ \A k \in DOMAIN obs.logged_when :
              /\ obs.logged_when[k].calls = 1
              /\ obs.logged_when[k].waiting = 0
              /\ obs.logged_when[k].resolved = 0
        /\ (pc = "resolve" \/ (StacksBuilt >= 1 /\ pc \in {"maneuver", "post_turn"})) =>
              LET seen == obs.logged[Len(obs.logged)]
              IN  /\ Len(seen) = Len(obs.first) + SumGot(obs.solicits)
                  /\ Len(seen) = Len(obs.solicits)
                  /\ \A j \in DOMAIN seen : seen[j] = obs.solicits[j].action
                  /\ SubSeq(seen, 1, Len(maneuver_stack)) = maneuver_stack
                  /\ Len(maneuver_stack) + Len(obs.resolved) = Len(seen)

\* A round with a logger has returned for three actors, and one of the three
\* stacks it was handed held reactions.
C17_ThreeStacksLogged ==
    /\ logger
    /\ obs.result = "Ok"
    /\ Len(participants) = 3
    /\ Len(obs.logged) = 3
    /\ \E k \in DOMAIN obs.logged : Len(obs.logged[k]) >= 3

AskedToCounter ==
    /\ call.op = "respond_to_action"
    /\ \E k \in DOMAIN all_current_reactions(call.before) :
          /\ react(all_current_reactions(call.before)[k], call.before, call.action).some
          /\ react(all_current_reactions(call.before)[k], call.before, call.action).actions # <<>>
          /\ call.before.mp >= mp_cost(all_current_reactions(call.before)[k])

\* Claim C19: an actor whose AP is negative never reacts: it adds no action to
\* the reactions collected so far and its AP and MP stay as they were; this
\* lasts until regeneration has brought its AP back to zero or above, and an
\* actor whose AP is exactly zero still reacts and pays.
C19_NegativeApNeverReacts ==
    call.op = "respond_to_action" =>
        /\ call.before.ap < 0 =>
              /\ call.reactions = call.earlier
              /\ participants[1].ap = call.before.ap
              /\ participants[1].mp = call.before.mp
        /\ call.before.ap >= 0 /\ AskedToCounter =>
              /\ Len(call.reactions) > Len(call.earlier)
              /\ participants[1].ap < call.before.ap

\* The holder reacted with AP exactly zero, went into debt, was asked again
\* about an attack it could otherwise counter and stayed silent.
C19_SilentAfterReactingAtZero ==
    /\ AskedToCounter
    /\ call.before.ap < 0
    /\ call.reactions = call.earlier
    /\ call.reacted_at = <<0>>
    /\ participants[1] = call.before

\* The defense the spec names for a damage category, from the derived stats
\* of the character before the blow.
NamedDefense(c, cat) ==
    CASE cat = "PHY" -> phys_defense(calculate_current_stats(c))
      [] cat = "MAG" -> mag_defense(calculate_current_stats(c))
      [] cat = "ZAP" -> mag_defense(calculate_current_stats(c)) \div 2
      [] cat = "ULT" -> 0

Effective == Max(call.damage.amount - NamedDefense(call.before, call.damage.dt.cat), 0)

\* Claim C20: apply_damage with damage of amount a takes max(a - defense, 0)
\* from exactly one resource and leaves everything else as it was: from HP
\* with the physical defense for PHY, from HP with the magical defense for
\* MAG, from HP with no defense for ULT, from MP with the integer half of the
\* magical defense for ZAP.
C20_DamageHitsOneResource ==
    call.op = "apply_damage" =>
        IF call.damage.dt.cat = "ZAP"
        THEN participants[1] = [call.before EXCEPT !.mp = @ - Effective]
        ELSE participants[1] = [call.before EXCEPT !.hp = @ - Effective]

\* A ZAP blow above half of an odd magical defense has drained MP and left
\* HP, AP and VIT alone.
C20_ZapDrainedMp ==
    /\ call.op = "apply_damage"
    /\ call.damage.dt.cat = "ZAP"
    /\ mag_defense(calculate_current_stats(call.before)) % 2 = 1
    /\ Effective > 0
    /\ participants[1].mp = call.before.mp - Effective
    /\ participants[1].hp = call.before.hp
    /\ participants[1].ap = call.before.ap
    /\ participants[1].vit = call.before.vit

\* A resource of a character, and the maximum its current stats derive for it.
Resource(c, unit) ==
    CASE unit = "HP" -> c.hp [] unit = "MP" -> c.mp [] unit = "AP" -> c.ap [] unit = "VIT" -> c.vit

DerivedMax(c, unit) ==
    CASE unit = "HP"  -> max_hp(calculate_current_stats(c))
      [] unit = "MP"  -> max_mp(calculate_current_stats(c))
      [] unit = "AP"  -> max_ap(calculate_current_stats(c))
      [] unit = "VIT" -> max_vit(calculate_current_stats(c))

\* The roster members the resolved action addressed.
Addressed ==
    { k \in DOMAIN participants : targets_character(call.action, participants[k].name) }

HealResolved == call.op = "resolve_on_chars" /\ call.action.effect.tag = "Heal"

\* Claim C21: after a Heal(unit) action is resolved on a character, the
\* addressed resource, which was within its derived maximum, still does not
\* exceed it.
C21_HealNeverExceedsMax ==
    HealResolved =>
        \A k \in Addressed :
            LET unit == call.action.effect.unit.unit
            IN  Resource(call.before[k], unit) <= DerivedMax(call.before[k], unit)
                    => Resource(participants[k], unit) <= DerivedMax(participants[k], unit)

\* Claim C22: apply_directly with a negative value reduces the addressed
\* unit: whatever the resource was (negative MP or AP included) it is strictly
\* lower afterwards, and the other three resources are as before.
C22_NegativeValueReduces ==
    HealResolved /\ call.action.effect.unit.v < 0 =>
        \A k \in Addressed :
            LET unit == call.action.effect.unit.unit
            IN  /\ Resource(participants[k], unit) < Resource(call.before[k], unit)
                /\ \A other \in Units \ {unit} :
                      Resource(participants[k], other) = Resource(call.before[k], other)

\* A timed effect stays after a post_turn if turns remain and it did not ask
\* to be ended.
StaysOn(te) == te[2] > 0 /\ ~cancel_self(te[1])

\* Claim C23: post_turn takes one from the remaining turns of every timed
\* effect and removes exactly the effects whose remaining turns reach zero or
\* whose cancel_self returns true; the others stay, in order.
C23_PostTurnDropsExpiredAndCancelled ==
    call.op = "post_turn" =>
        participants[1].timed_effects =
            SelectSeq([i \in DOMAIN call.before.timed_effects |->
                          <<call.before.timed_effects[i][1],
                            call.before.timed_effects[i][2] - 1>>],
                      StaysOn)

\* Claim C24: resolving an action with payload GiveTimedEffect(effect,
\* duration) and a character target attaches the effect with that duration to
\* every matching roster member.
C24_GiveTimedEffectAttaches ==
    call.op = "resolve_on_chars" /\ call.action.effect.tag = "GiveTimedEffect" =>
        \A k \in Addressed :
            participants[k].timed_effects =
                Append(call.before[k].timed_effects,
                       <<call.action.effect.eff, call.action.effect.t>>)

\* The character whose maneuver was executed last, as the maneuver found it.
Actor == obs.mstart[CharIndex(obs.mstart, obs.man[Len(obs.man)])]

Enemies == { k \in DOMAIN obs.mstart : obs.mstart[k].party # Actor.party }

\* hp / max_hp of a is at most that of b (both maxima are positive).
RatioAtMost(a, b) ==
    a.hp * max_hp(calculate_current_stats(b)) <= b.hp * max_hp(calculate_current_stats(a))

\* Claim C25: the default maneuver produces exactly one PHY Attack of amount
\* at least 1, from the acting character, aimed at exactly one character
\* outside the actor's party: the enemy with the lowest HP to max-HP ratio.
C25_BlowTargetsWeakestEnemy ==
    obs.man # <<>> /\ obs.first # <<>> =>
        /\ Len(obs.first) = 1
        /\ FirstAction.effect.tag = "Attack"
        /\ FirstAction.effect.dmg.dt.cat = "PHY"
        /\ FirstAction.effect.dmg.amount >= 1
        /\ FirstAction.source = as_target(Actor)
        /\ FirstAction.target.kind = "Character"
        /\ Len(FirstAction.target.chars) = 1
        /\ \E t \in Enemies :
              /\ FirstAction.target = as_target(obs.mstart[t])
              /\ \A e \in Enemies : RatioAtMost(obs.mstart[t], obs.mstart[e])

TwoParties ==
    \E i, j \in DOMAIN participants : participants[i].party # participants[j].party

\* Claim C26: every started turn runs to completion.  For a roster with
\* members in at least two parties, counter holders answering each other
\* included, the build of a stack never reaches MaxStack actions and a
\* running process_turn call eventually returns Ok.
C26_TurnCompletes ==
    /\ [](Len(maneuver_stack) < MaxStack)
    /\ (TwoParties /\ obs.result = "running") ~> (pc = "idle" /\ obs.result = "Ok")

\* A round has returned in which two ring holders answered each other's
\* counter-attacks until one of them could no longer pay.
C26_PingPongEnded ==
    /\ obs.result = "Ok"
    /\ pc = "idle"
    /\ logger
    /\ \E k \in DOMAIN obs.logged : Len(obs.logged[k]) >= 13
    /\ \E i, j \in DOMAIN participants :
          /\ participants[i].party # participants[j].party
          /\ participants[i].ap < 0
          /\ participants[j].ap < 0

IsFallen(c) == c.hp <= 0

SameMembers(order, ps) ==
    /\ Len(order) = Len(ps)
    /\ \A k \in DOMAIN ps : \E j \in DOMAIN order : order[j] = ps[k].name

EveryoneAsked(s) == \A k \in DOMAIN participants : \E j \in DOMAIN s.asked : s.asked[j] = participants[k].name

Held == all_current_reactions(call.before)

Applies(k) == react(Held[k], call.before, call.action).some

\* The reactions the response accepts by the spec's rule, as indices into
\* Held: from the k-th on, with mp the MP left at that point.
RECURSIVE Answers(_, _)
Answers(k, mp) ==
    IF k > Len(Held) THEN <<>>
    ELSE IF mp_cost(Held[k]) > 0 /\ mp_cost(Held[k]) > mp THEN Answers(k + 1, mp)
    ELSE IF Applies(k)
    THEN <<k>> \o Answers(k + 1, IF mp_cost(Held[k]) > 0 THEN mp - mp_cost(Held[k]) ELSE mp)
    ELSE Answers(k + 1, mp)

Accepted == IF call.before.ap < 0 THEN <<>> ELSE Answers(1, call.before.mp)

RECURSIVE MpPaid(_)
MpPaid(ks) ==
    IF ks = <<>> THEN 0
    ELSE (IF mp_cost(Held[Head(ks)]) > 0 THEN mp_cost(Held[Head(ks)]) ELSE 0) + MpPaid(Tail(ks))

RECURSIVE ApPaid(_)
ApPaid(ks) == IF ks = <<>> THEN 0 ELSE ap_cost(Held[Head(ks)]) + ApPaid(Tail(ks))

RECURSIVE ActionsOf(_)
ActionsOf(ks) ==
    IF ks = <<>> THEN <<>>
    ELSE react(Held[Head(ks)], call.before, call.action).actions \o ActionsOf(Tail(ks))

InSeq(k, ks) == \E j \in DOMAIN ks : ks[j] = k

\* Claim C28: while an actor responds, a reaction whose MP cost is positive
\* and greater than the MP the actor has left at that point is skipped: it
\* adds no action and costs nothing, so the MP paid is that of the reactions
\* the actor could afford in turn, and paying never takes MP from zero or
\* above to below zero.
C28_UnaffordableReactionSkipped ==
    call.op = "respond_to_action" =>
        /\ participants[1].mp = call.before.mp - MpPaid(Accepted)
        /\ Len(call.reactions) = Len(call.earlier) + Len(ActionsOf(Accepted))
        /\ call.before.mp >= 0 => participants[1].mp >= 0
        /\ (\A k \in DOMAIN Held : Applies(k) => mp_cost(Held[k]) > call.before.mp) =>
              /\ participants[1] = call.before
              /\ call.reactions = call.earlier

\* With 30 MP and two Counter rings the holder answered with the first
\* counter and, left with 13 MP, skipped the second (17 MP).
C28_SecondCounterSkipped ==
    /\ call.op = "respond_to_action"
    /\ Len(Held) = 2
    /\ Applies(1) /\ Applies(2)
    /\ mp_cost(Held[2]) = 17
    /\ call.before.ap >= 0
    /\ call.before.mp = 30
    /\ participants[1].mp = 13
    /\ participants[1].ap = call.before.ap - 3
    /\ Len(call.reactions) = Len(call.earlier) + 2

\* Claim C29: for every reaction accepted during a response the actor's AP
\* drops by exactly that reaction's AP cost, below zero if need be, and its
\* MP by exactly its MP cost when positive; nothing else of the actor
\* changes; the reaction's actions come after the reactions collected from
\* earlier-solicited actors, which are left as they were.
C29_AcceptedReactionPaidAndAppended ==
    call.op = "respond_to_action" =>
        /\ participants[1] = [call.before EXCEPT !.ap = @ - ApPaid(Accepted),
                                                  !.mp = @ - MpPaid(Accepted)]
        /\ call.reactions = call.earlier \o ActionsOf(Accepted)

\* A holder with 1 AP accepted a counter that cost 17 MP and 3 AP after
\* another actor's reaction had been collected: AP -2, and that reaction
\* still heads the list.
C29_PaidIntoDebtBehindEarlier ==
    /\ call.op = "respond_to_action"
    /\ call.earlier # <<>>
    /\ call.before.ap = 1
    /\ participants[1].ap = -2
    /\ participants[1].mp = call.before.mp - 17
    /\ Len(call.reactions) = Len(call.earlier) + 2
    /\ call.reactions[1] = call.earlier[1]

\* Claim C30: an actor that starts a response with AP zero or above answers
\* with every applicable reaction it can afford the MP for, in declaration
\* order (equipment order, then order within the item), not only the first;
\* each is paid for even when an earlier one has driven AP below zero.
C30_AllReactionsAnswerInOrder ==
    (call.op = "respond_to_action" /\ call.before.ap >= 0) =>
        /\ \A k \in DOMAIN Held :
              (Applies(k) /\ mp_cost(Held[k]) <= 0) => InSeq(k, Accepted)
        /\ call.reactions = call.earlier \o ActionsOf(Accepted)
        /\ participants[1].ap = call.before.ap - ap_cost(Held[1]) * Len(Accepted)

\* A holder of a Counter ring and a Twin ring, with 0 AP, answered one blow
\* with all three counters: the Counter ring's reduction and return blow
\* first, then the Twin ring's two return blows; AP -9.
C30_ThreeCountersAtZeroAp ==
    /\ call.op = "respond_to_action"
    /\ Len(call.before.equipment) = 2
    /\ call.before.ap = 0
    /\ Accepted = <<1, 2, 3>>
    /\ participants[1].ap = -9
    /\ Len(call.reactions) = Len(call.earlier) + 4
    /\ call.reactions[Len(call.earlier) + 1].effect.tag = "AdjustDamageMul"
    /\ call.reactions[Len(call.earlier) + 2].effect.dmg.amount = 19
    /\ call.reactions[Len(call.earlier) + 3].effect.dmg.amount = 5
    /\ call.reactions[Len(call.earlier) + 4].effect.dmg.amount = 5

\* The stack as it was built, the position being resolved and the action
\* on top (SpecStack, pc = "resolve").
BuiltStack == obs.logged[1]

Position == Len(maneuver_stack) - 1

Top == maneuver_stack[Len(maneuver_stack)]

\* The pending side-list entries keyed to position p, oldest first.
PendingFor(p) ==
    SelectSeq(targeting_actions, LAMBDA entry : entry[1] = p)

HasPending(p, tag) ==
    \E k \in DOMAIN PendingFor(p) : PendingFor(p)[k][2].effect.tag = tag

\* The step that resolves the top of the stack leaves everybody as they are
\* and hands on nothing that can still act on another action.
InertStep ==
    /\ participants' = participants
    /\ \/ targeting_actions' = targeting_actions
       \/ targeting_actions'[Len(targeting_actions')][2].effect = Canceled

CancelAimedAt(p) ==
    \E k \in DOMAIN BuiltStack :
        BuiltStack[k].effect = Cancel /\ BuiltStack[k].target = PtrAction(p)

\* Claim C31 as stated: whenever the built stack holds a Cancel aimed at
\* position p, the action at p resolves without any effect.
C31_CancelledActionInert ==
    [][(pc = "resolve" /\ CancelAimedAt(Position)) => InertStep]_vars

\* Claim C31, amended: a Cancel that is still a Cancel aimed at position p
\* when it is itself resolved (it has gone onto the side-list keyed to p)
\* makes the action at p inert: resolving it changes no actor and puts
\* nothing but a Canceled action on the side-list, whatever AdjustDamage or
\* ChangeTarget is pending for p before or after the Cancel.
C31_PendingCancelMakesInert ==
    [][(pc = "resolve" /\ HasPending(Position, "Cancel")) => InertStep]_vars

\* An Attack of 90 on Ann was resolved under a Cancel (applied first) and an
\* AdjustDamageAbs(4) (applied after it): Ann is as she was.
C31_CancelThenAdjustResolved ==
    /\ pc = "post_turn"
    /\ Len(BuiltStack) = 3
    /\ BuiltStack[1].effect.tag = "Attack"
    /\ BuiltStack[2].effect = AdjustDamageAbs(4) /\ BuiltStack[2].target = PtrAction(0)
    /\ BuiltStack[3].effect = Cancel /\ BuiltStack[3].target = PtrAction(0)
    /\ targeting_actions = <<<<0, BuiltStack[3]>>, <<0, BuiltStack[2]>>>>
    /\ participants = StackRoster

\* The step dispatches action a: its payload reaches the characters a names,
\* or a goes onto the side-list keyed to the position it aims at.
Dispatched(a) ==
    /\ participants' = resolve_on_chars(a, participants)
    /\ targeting_actions' = IF a.target.kind = "Action"
                            THEN Append(targeting_actions, <<a.target.i, a>>)
                            ELSE targeting_actions

\* The tenths t of a factor t / 10.
Tenths(f) == CHOOSE t \in 0 .. 10 : f = F64Lit(t, 10)

\* The action after an AdjustDamage by the claim's rule: a + d, or
\* floor(a x f) less `short`.
Adjusted(action, e, short) ==
    IF action.effect.tag # "Attack" THEN action
    ELSE IF e.tag = "AdjustDamageAbs"
    THEN [action EXCEPT !.effect.dmg.amount = @ + e.d]
    ELSE [action EXCEPT !.effect.dmg.amount = ((@ * Tenths(e.f)) \div 10) - short]

\* One AdjustDamageAbs or AdjustDamageMul, and nothing else, is pending for
\* the action about to be resolved.
OneAdjustPending ==
    /\ pc = "resolve"
    /\ Len(PendingFor(Position)) = 1
    /\ PendingFor(Position)[1][2].effect.tag \in {"AdjustDamageAbs", "AdjustDamageMul"}

\* Claim C32: a pending AdjustDamageAbs(d) rewrites a targeted Attack of
\* amount a to a + d and a pending AdjustDamageMul(f) to floor(a x f), with
\* damage type, source and target pointer as they were; a targeted action
\* whose payload is not Attack is dispatched unchanged.
C32_AdjustDamageRewritesAmount ==
    [][OneAdjustPending => Dispatched(Adjusted(Top, PendingFor(Position)[1][2].effect, 0))]_vars

\* What holds of C32 in the code: as the claim says, except that the amount
\* after AdjustDamageMul(f) may fall one short of floor(a x f).
C32_AdjustDamageWithinOne ==
    [][OneAdjustPending =>
          \/ Dispatched(Adjusted(Top, PendingFor(Position)[1][2].effect, 0))
          \/ /\ PendingFor(Position)[1][2].effect.tag = "AdjustDamageMul"
             /\ Dispatched(Adjusted(Top, PendingFor(Position)[1][2].effect, 1))]_vars

\* An Attack of 90 on Ann (physical defense 10) was resolved under one
\* AdjustDamageAbs(4): Ann lost 84 HP.
C32_AdjustedBlowResolved ==
    /\ pc = "post_turn"
    /\ Len(BuiltStack) = 2
    /\ BuiltStack[1].effect.tag = "Attack"
    /\ BuiltStack[2].effect = AdjustDamageAbs(4)
    /\ participants[1].hp = StackRoster[1].hp - 84
    /\ participants[2] = StackRoster[2]

\* The ChangeTarget actions of the built stack aimed at position p.
RetargetsAimedAt(p) ==
    { k \in DOMAIN BuiltStack :
        BuiltStack[k].effect.tag = "ChangeTarget" /\ BuiltStack[k].target = PtrAction(p) }

\* The step dispatches the top of the stack, as the pending entries have
\* left it, on pointer q.
DispatchedOn(q) ==
    Dispatched([ApplyPending(targeting_actions, current_stack_index, Top) EXCEPT !.target = q])

\* The ChangeTarget entries pending for position p, oldest first.
PendingRetargets(p) ==
    SelectSeq(PendingFor(p), LAMBDA entry : entry[2].effect.tag = "ChangeTarget")

\* Claim C33 as stated: whenever the built stack holds a ChangeTarget(q)
\* aimed at position p, the action at p is dispatched on q.
C33_RetargetedActionDispatchedOnQ ==
    [][pc = "resolve" =>
          \A k \in RetargetsAimedAt(Position) : DispatchedOn(BuiltStack[k].effect.ptr)]_vars

\* Claim C33, amended: when ChangeTarget entries are pending for position p
\* as the action at p is popped, the action is dispatched on the pointer q
\* of the last of them and not on its original target: to the members q
\* names when q is a character pointer, onto the side-list keyed to q when
\* q is a stack position, nowhere when q is an Effect or Environment pointer.
C33_LastPendingRetargetDecides ==
    [][(pc = "resolve" /\ PendingRetargets(Position) # <<>>) =>
          DispatchedOn(PendingRetargets(Position)[Len(PendingRetargets(Position))][2].effect.ptr)]_vars

\* Bob's Attack of 90 on Ann was resolved under a ChangeTarget naming Bob:
\* Bob (physical defense 21) lost 69 HP and Ann is as she was.
C33_BlowTurnedOnBob ==
    /\ pc = "post_turn"
    /\ Len(BuiltStack) = 2
    /\ BuiltStack[1].effect.tag = "Attack"
    /\ BuiltStack[2].effect = ChangeTarget(PtrCharacter(<<"Bob">>))
    /\ participants[1] = StackRoster[1]
    /\ participants[2].hp = StackRoster[2].hp - 69

\* Action a after the side-list entries es, oldest first.
RECURSIVE ApplyAll(_, _)
ApplyAll(es, a) ==
    IF es = <<>> THEN a ELSE ApplyAll(Tail(es), apply_to_action(Head(es)[2].effect, a))

\* The side-list entries aimed at the position action a was given when pushed.
AimedAt(a) ==
    SelectSeq(targeting_actions, LAMBDA entry : entry[2].target = build_self_target(a))

\* Claim C34: at every pop of resolve the tracked current position is the
\* position the popped action was given when it was pushed, and the popped
\* action is dispatched after exactly the pending entries aimed at that
\* position have been applied to it.
C34_TrackedPositionIsPoppedPosition ==
    [][pc = "resolve" =>
          /\ Len(obs.resolved') = Len(obs.resolved) + 1
          /\ obs.resolved'[Len(obs.resolved')] = current_stack_index
          /\ current_stack_index = Len(maneuver_stack) - 1
          /\ Dispatched(ApplyAll(AimedAt(Top), Top))]_vars

\* A stack of three actions has been resolved from position 2 down to 0,
\* with the reduction aimed at position 0 left on the side-list.
C34_ThreePopsTracked ==
    /\ obs.resolved = <<2, 1, 0>>
    /\ maneuver_stack = <<>>
    /\ Len(targeting_actions) = 1
    /\ targeting_actions[1][1] = 0
    /\ targeting_actions[1][2].effect.tag = "AdjustDamageMul"

\* Claim C35: while a stack is built it only grows and no pushed action
\* moves; every action on the stack holds the stack-position pointer of its
\* own index; the pointer is already set on the action shown to the actors
\* solicited for reactions; and no reaction is aimed at a missing stack
\* position (the 'Bad Target Configuration' failure of build_self_target).
C35_StackPositionsStable ==
    /\ [](\A k \in DOMAIN maneuver_stack :
            /\ maneuver_stack[k].stack_target = PtrAction(k - 1)
            /\ maneuver_stack[k].target.kind # "None")
    /\ [](\A j \in DOMAIN obs.solicits :
            obs.solicits[j].action.stack_target = PtrAction(obs.solicits[j].pos))
    /\ [][pc = "build" =>
            /\ Len(maneuver_stack') = Len(maneuver_stack) + 1
            /\ SubSeq(maneuver_stack', 1, Len(maneuver_stack)) = maneuver_stack]_vars

\* A stack stands built in which the second action is a reaction aimed,
\* through build_self_target, at the position of the first.
C35_ReactionAimedAtPosition ==
    /\ pc = "log"
    /\ Len(maneuver_stack) >= 3
    /\ maneuver_stack[2].target = PtrAction(0)
    /\ maneuver_stack[2].stack_target = PtrAction(1)
    /\ obs.solicits[1].got > 0

\* The positions from n - 1 down to 0.
Descending(n) == [k \in 1 .. n |-> n - k]

ResolutionEnded == obs.built > 0 /\ pc \notin {"build", "log", "resolve"}

\* Claim C36: in every stack process_turn builds, an action aimed at a stack
\* position is aimed strictly below its own, so it is popped, and put on the
\* side-list, while its target is still on the stack; every position is
\* popped once, top down, and at its pop the entries aimed at it are applied
\* (C34): when resolution ends each entry has been applied exactly once.
C36_ReactionsAimBelowThemselves ==
    /\ [](\A k \in DOMAIN maneuver_stack :
            maneuver_stack[k].target.kind = "Action" => maneuver_stack[k].target.i < k - 1)
    /\ [][(pc = "resolve" /\ targeting_actions' # targeting_actions) =>
            /\ Len(targeting_actions') = Len(targeting_actions) + 1
            /\ targeting_actions'[Len(targeting_actions')][1] < current_stack_index
            /\ targeting_actions'[Len(targeting_actions')][1] < Len(maneuver_stack')]_vars
    /\ [][pc = "resolve" => Dispatched(ApplyAll(PendingFor(Position), Top))]_vars
    /\ [](ResolutionEnded => obs.resolved = Descending(obs.built))

\* A maneuver has been resolved whose blow was aimed at a ring holder: the
\* reduction aimed at position 0 is on the side-list and the holder's HP is
\* what it was when the maneuver began.
C36_ReductionAppliedOnce ==
    /\ ResolutionEnded
    /\ obs.built >= 3
    /\ \E j \in DOMAIN targeting_actions :
          /\ targeting_actions[j][1] = 0
          /\ targeting_actions[j][2].effect.tag = "AdjustDamageMul"
    /\ \E k \in DOMAIN participants :
          /\ obs.first[1].target = as_target(obs.mstart[k])
          /\ participants[k].hp = obs.mstart[k].hp

\* Claim C37: the action-targeting actions pending for one stack position
\* are applied to the action at that position in the order in which they
\* were popped, the one from the higher stack position first, and all of
\* them before the action is dispatched.
C37_PendingAppliedInPopOrder ==
    /\ [](pc = "resolve" =>
            \A j, k \in DOMAIN PendingFor(Position) :
                j < k => PendingFor(Position)[j][2].stack_target.i
                            > PendingFor(Position)[k][2].stack_target.i)
    /\ [][(pc = "resolve" /\ Len(PendingFor(Position)) >= 2) =>
            Dispatched(ApplyAll(PendingFor(Position), Top))]_vars

\* An Attack of 90 on Ann (physical defense 10) was resolved under an
\* AdjustDamageAbs(4) from position 1 and an AdjustDamageMul(0.5) from
\* position 2: halved first, then raised, 49, and Ann lost 39 HP.
C37_HalvedThenRaised ==
    /\ pc = "post_turn"
    /\ Len(BuiltStack) = 3
    /\ BuiltStack[1].effect.tag = "Attack"
    /\ BuiltStack[2].effect = AdjustDamageAbs(4) /\ BuiltStack[2].target = PtrAction(0)
    /\ BuiltStack[3].effect = AdjustDamageMul(F64Lit(5, 10))
    /\ BuiltStack[3].target = PtrAction(0)
    /\ participants[1].hp = StackRoster[1].hp - 39

\* The action the step dispatches: the top of the stack after the entries
\* pending for its position.
Resolving == ApplyAll(PendingFor(Position), Top)

Named(a, c) ==
    a.target.kind = "Character" /\ \E j \in DOMAIN a.target.chars : a.target.chars[j] = c.name

\* Claim C38: resolving an Attack never increases a resource.  Whatever the
\* damage type and the amount the pending AdjustDamage entries have left,
\* zero and negative amounts included, every actor's HP, MP, AP and VIT
\* after the attack are at most what they were, and the actors the target
\* pointer does not name are unchanged.
C38_AttackNeverRaisesResource ==
    [][(pc = "resolve" /\ Resolving.effect.tag = "Attack") =>
          \A k \in DOMAIN participants :
              /\ participants'[k].hp <= participants[k].hp
              /\ participants'[k].mp <= participants[k].mp
              /\ participants'[k].ap <= participants[k].ap
              /\ participants'[k].vit <= participants[k].vit
              /\ ~Named(Resolving, participants[k]) => participants'[k] = participants[k]]_vars

\* An ULT Attack of 90 on Ann and Bob was resolved after an
\* AdjustDamageAbs(-100) had left it at -10: nobody gained or lost anything.
C38_NegativeBlowResolved ==
    /\ pc = "post_turn"
    /\ Len(BuiltStack) = 2
    /\ BuiltStack[1].effect = Attack(Damage(DamageType("ULT", ""), 90))
    /\ BuiltStack[2].effect = AdjustDamageAbs(-100)
    /\ participants = StackRoster

(***************************************************************************)
(* AP debt (under SpecDebt).                                               *)
(***************************************************************************)
RECURSIVE SumApCost(_)
SumApCost(rs) == IF rs = <<>> THEN 0 ELSE ap_cost(Head(rs)) + SumApCost(Tail(rs))

\* The AP one response can cost an actor: every reaction it holds accepted.
ApCosts(c) == SumApCost(all_current_reactions(c))

MaxApNow(c) == max_ap(calculate_current_stats(c))

\* The step lowers actor k's AP inside a response that started with AP >= 0.
FallsByResponse(k) ==
    /\ pc = "build"
    /\ participants[k].ap >= 0
    /\ participants'[k].ap >= participants[k].ap - ApCosts(participants[k])

\* The step is actor k's pre_turn and leaves its AP at its derived maximum.
FallsByClamp(k) ==
    /\ pc = "pre_turn"
    /\ k = CharIndex(participants, turn_order[idx])
    /\ participants'[k].ap = MaxApNow(participants[k])

ConstructionSparesTheRest ==
    pc = "build" =>
        \A k \in DOMAIN participants :
            /\ participants'[k].hp = participants[k].hp
            /\ participants'[k].vit = participants[k].vit
            /\ participants'[k].equipment = participants[k].equipment
            /\ participants'[k].timed_effects = participants[k].timed_effects

RECURSIVE Contributing(_)
Contributing(ks) ==
    IF ks = <<>> THEN <<>>
    ELSE (IF react(Held[Head(ks)], call.before, call.action).actions # <<>>
          THEN <<Head(ks)>> ELSE <<>>) \o Contributing(Tail(ks))

\* Claim C40: a response reduces the actor's AP and MP only for the
\* reactions that contribute at least one action: what is paid is the AP and
\* MP cost of the contributing reactions, and a reaction whose result is
\* empty (a Counter with incoming = 1 and outgoing = 0 answering a matching
\* attack) costs nothing.
C40_EmptyReactionIsFree ==
    call.op = "respond_to_action" =>
        /\ participants[1].ap = call.before.ap - ApPaid(Contributing(Accepted))
        /\ participants[1].mp = call.before.mp - MpPaid(Contributing(Accepted))

\* What the code does instead: every reaction whose react returns Some is
\* paid for in AP, empty result or not; MP is safe only because a Counter
\* with an empty result has MP cost 0.
C40_EveryAcceptedReactionPaid ==
    call.op = "respond_to_action" =>
        /\ participants[1].ap = call.before.ap - ApPaid(Accepted)
        /\ participants[1].mp = call.before.mp - MpPaid(Contributing(Accepted))
        /\ Len(call.reactions) = Len(call.earlier) + Len(ActionsOf(Contributing(Accepted)))

\* The holder of the idle ring answered a PHY attack on itself with AP 3:
\* nothing was added to the reactions and its AP is 0.
C40_IdleCounterCharged ==
    /\ call.op = "respond_to_action"
    /\ all_current_reactions(call.before) = <<Counter(PHY(""), F64FromInt(1), F64FromInt(0))>>
    /\ call.action.effect = Attack(Damage(PHY("Strike"), 19))
    /\ targets_character(call.action, "Ann")
    /\ call.before.ap = 3
    /\ participants[1].ap = 0
    /\ participants[1].mp = call.before.mp
    /\ call.reactions = call.earlier

====
